---- MODULE Spec2Model ----
(***************************************************************************)
(* Model of the futures position analysis pipeline:                        *)
(*   FuturesAnalysisEngine.full_analysis    (futures_analyzer.py)          *)
(*   FuturesDataManager.fetch_position_data / fetch_price_data /           *)
(*       load_position_data                 (futures_analyzer.py)          *)
(*   FastDataManager.fetch_position_data_fast / fetch_price_data_fast,     *)
(*       cached_data_fetch, smart_cache     (performance_optimizer.py)     *)
(*   CloudDataFetcher.fetch_position_data_with_fallback,                   *)
(*       safe_akshare_call                  (cloud_data_fetcher.py)        *)
(*                                                                         *)
(* Exchanges are numbered in priority order; the last one is 广期所 (GFEX), *)
(* the only source cached_data_fetch retries.  Price markets follow the    *)
(* position sources in the numbering of the fetch tasks.  Completion       *)
(* fractions are integers in units of 1/Scale.                             *)
(***************************************************************************)
EXTENDS Integers, Sequences, FiniteSets, TLC

\* ---------------------------------------------------------------- bounds
NumSources == 3
NumPriceEx == 2
MaxRuns == 2

NumKeys == 2
NumThreads == 2
NumChunks == 2
MaxHours == 25
MaxEvictDays == 1
NumAddrs == 2
ChgRange == 3
MaxSeats == 6
NumFree == 2
MaxRetailRows == 2
MaxQuotes == 3
MaxContracts == 2
MaxSheetLen == 2
MaxConfigCalls == 2

\* ------------------------------------------------------ program constants
MaxWorkers == 2
GfexMaxRetries == 3
CloudMaxRetries == 3
DefaultMaxAgeHours == 24
SmartCacheHours == 6
HoursPerDay == 24
MinValidSeats == 5
MinInformed == 2
CutoffTenths == 4
MsdPerUnit == 20
TopN == 10
MinResonance == 2
PivotYear == 50
UnparsedKey == 999999
MinContracts == 2
CloudGfexTimeout == 45
CloudMaxWorkersCfg == 2
LocalGfexTimeout == 60
LocalMaxWorkers == 3

Scale == 60 * 100

Sources == 1..NumSources
Gfex == NumSources
PriceIds == (NumSources + 1)..(NumSources + NumPriceEx)
TaskIds == 1..(NumSources + NumPriceEx)

Stages == <<"AcquirePositions", "AcquirePrices", "LoadSnapshots", "RunStrategies",
            "RunTermStructure", "Summarize", "Done">>

VARIABLES
    hasSIGALRM,     \* platform: hasattr(signal, 'SIGALRM')
    fastAvailable,  \* environment: performance_optimizer can be imported
    dataDir,        \* per exchange artifact: 0 = no file, r = written by run r
    stCache,        \* st.cache_data entries of cached_data_fetch
    smartCache,     \* smart_cache entry of fetch_price_data_fast
    runs,           \* number of calls started so far
    mode,           \* entry point / data manager of the current call
    cb,             \* the progress_callback argument: "none" or "flaky"
    pc,             \* position of the main thread
    idx,            \* loop index of the main thread
    successCount,   \* success_count
    failed,         \* failed_exchanges
    gotData,        \* tasks whose upstream call returned data
    task,           \* state of each fetch task / upstream call
    attempts,       \* upstream calls made for each task
    cause,          \* why a task produced no data
    collected,      \* futures already taken from as_completed
    alarm,          \* a SIGALRM timer is pending
    persisted,      \* exchanges whose artifact this run wrote
    fetchOk,        \* <<b>> once the position fetch returned b, <<>> before
    priceRows,      \* the price table has rows
    loaded,         \* exchanges whose snapshot load_position_data returned
    analysed,       \* exchanges whose contract is in position_analysis
    fracs,          \* fractions passed to progress_callback, in order
    stages,         \* stages entered by full_analysis, in order
    outcome,        \* how the call ended
    now,            \* wall clock, in hours
    cacheDir,       \* the .pkl files of the cache directory, by cache key
    cacheOp,        \* the last cache operation and what it returned
    saved,          \* per key, what the last completed save wrote and when
    writers,        \* the save_to_cache calls in progress, by thread
    fnIn,           \* argument of the function under evaluation
    fnOut,          \* its return value
    cfgHeap,        \* cloud_config: the dict objects CLOUD_CONFIG refers to, by address
    cfgCalls        \* cloud_config: the calls made so far and what each returned

envVars == <<hasSIGALRM, fastAvailable>>
storeVars == <<dataDir, stCache, smartCache>>
ctlVars == <<runs, mode, cb>>
\* locals of the position / price fetch in progress
fetchVars == <<successCount, failed, gotData, task, attempts, cause, collected>>
runVars == <<persisted, fetchOk>>
laterVars == <<priceRows, loaded, analysed>>
pipeVars == <<hasSIGALRM, fastAvailable, dataDir, stCache, smartCache, runs, mode, cb,
              pc, idx, successCount, failed, gotData, task, attempts, cause, collected,
              alarm, persisted, fetchOk, priceRows, loaded, analysed, fracs, stages,
              outcome>>
cacheVars == <<now, cacheDir, cacheOp, saved, writers>>
fnVars == <<fnIn, fnOut>>
cfgVars == <<cfgHeap, cfgCalls>>
auxVars == <<cacheVars, fnVars, cfgVars>>
vars == <<pipeVars, auxVars>>

\* ------------------------------------------------------------- fractions
Pct(p) == (p * Scale) \div 100

\* (i + 1) / total_exchanges * 0.6
PosFrac(i) == ((i + 1) * 60 * Scale) \div (NumSources * 100)

\* i / total_exchanges * 0.6
CloudPosFrac(i) == (i * 60 * Scale) \div (NumSources * 100)

\* 0.6 + (i / len(price_exchanges)) * 0.2
PriceFrac(i) == Pct(60) + (i * 20 * Scale) \div (NumPriceEx * 100)

\* Variant of AnalyzeFrac that forgets to divide by the number of contracts.
AnalyzeFracUndivided(i, total) == Pct(80) + (i * 10 * Scale) \div 100

\* 0.8 + (i / total_contracts) * 0.1
AnalyzeFrac(i, total) == Pct(80) + (i * 10 * Scale) \div (total * 100)

\* ------------------------------------------------------ progress callback
\* The choices of one invocation: a flaky callback may raise, None is never called.
CbRaises == IF cb = "flaky" THEN BOOLEAN ELSE {FALSE}

\* `if progress_callback: progress_callback(msg, f)`: the callback receives f.
CallCb(f) == fracs' = IF cb = "none" THEN fracs ELSE Append(fracs, f)

EnterStage(name) == stages' = Append(stages, name)

\* ---------------------------------------------------------------- helpers
\* What one upstream call can do: return a dataset, return nothing usable,
\* raise, or never return.
UpstreamOutcomes == {"data", "empty", "error", "hang"}

\* config['filename']: every exchange of exchange_config has a file name of its
\* own (src/performance_optimizer.py lines 220-247); a file is identified here by
\* the exchange it is named after.
FileOf(s) == s

\* pd.ExcelWriter(save_path) ... df.to_excel(...): the artifact of exchange s is
\* (over)written by the current run.
Persist(s) ==
    /\ dataDir' = [dataDir EXCEPT ![FileOf(s)] = runs]
    /\ persisted' = persisted \cup {s}

\* The i-th (0-based) element of a set of numbers in increasing order.
Nth(S, i) == CHOOSE s \in S : Cardinality({t \in S : t < s}) = i

NoTasks == [t \in TaskIds |-> "none"]
NoAttempts == [t \in TaskIds |-> 0]

\* The locals of a fetch function disappear when its frame is left.
DropFetchLocals ==
    /\ successCount' = 0
    /\ failed' = {}
    /\ gotData' = {}
    /\ task' = NoTasks
    /\ attempts' = NoAttempts
    /\ cause' = NoTasks
    /\ collected' = {}

\* Variant of FetchResult that reports success whenever the loop completed.
FetchResultAlways(count) == count >= 0

\* `return success_count > 0`
FetchResult(count) == count > 0

\* An exception reaches the handler of full_analysis (line 591).
Raise == pc' = "fa_except"

\* The pipeline before any call.
PipelineStart ==
    /\ dataDir = [s \in Sources |-> 0]
    /\ stCache = [t \in TaskIds |-> "miss"]
    /\ smartCache = "absent"
    /\ runs = 0
    /\ mode = "idle"
    /\ cb = "none"
    /\ pc = "idle"
    /\ idx = 0
    /\ successCount = 0
    /\ failed = {}
    /\ gotData = {}
    /\ task = NoTasks
    /\ attempts = NoAttempts
    /\ cause = NoTasks
    /\ collected = {}
    /\ alarm = FALSE
    /\ persisted = {}
    /\ fetchOk = <<>>
    /\ priceRows = FALSE
    /\ loaded = {}
    /\ analysed = {}
    /\ fracs = <<>>
    /\ stages = <<>>
    /\ outcome = "none"

\* ------------------------------------------------- PerformanceOptimizer cache
Keys == 1..NumKeys
Threads == 1..NumThreads

\* What the cached functions return: a table with rows or an empty table.
Values == {"rows", "empty"}

\* A file of the cache directory: the chunks written to it and its modification
\* time; NoFile stands for a path that does not exist.
NoFile == [data |-> <<>>, mtime |-> -1]

Exists(file) == file.mtime >= 0

\* The record kept of a cache operation: which one, on which key, what it
\* returned, whether the wrapped function was executed, and the age of the entry
\* it found (-1 when there was no file).
Op(op, k, result, ran, age) ==
    [op |-> op, key |-> k, result |-> result, ran |-> ran, age |-> age]

NoOp == Op("none", 0, "None", FALSE, -1)

IdleWriter == [st |-> "idle", key |-> 0, val |-> "None", pos |-> 0]

NoInput == [fn |-> "none"]

NoOutput == [done |-> FALSE]

\* The cache directory before any use, and no function under evaluation.
CacheStart ==
    /\ now = 0
    /\ cacheDir = [k \in Keys |-> NoFile]
    /\ cacheOp = NoOp
    /\ saved = [k \in Keys |-> <<>>]
    /\ writers = [w \in Threads |-> IdleWriter]

FnStart == fnIn = NoInput /\ fnOut = NoOutput

\* ------------------------------------------------------------ cloud_config
\* CLOUD_CONFIG (lines 11-63) is a dict of dicts: the module global refers to the
\* top-level dict, whose entries refer to the nested dicts.  Of the nested dicts
\* the two that the module's functions touch are kept, each with the entry that
\* is assigned and one that is not.
CLOUD_CONFIG == [timeouts |-> "timeouts_dict", concurrency |-> "concurrency_dict"]

\* The nested dicts as the module is loaded: timeouts["广期所"] = 45 next to the
\* other timeouts (30), concurrency["max_workers"] = 2 next to chunk_size (2).
ConfigStart ==
    /\ cfgHeap = [timeouts_dict |-> [touched |-> CloudGfexTimeout, other |-> 30],
                  concurrency_dict |-> [touched |-> CloudMaxWorkersCfg, other |-> 2]]
    /\ cfgCalls = <<>>

\* ------------------------------------------------------------------ Init
Init ==
    /\ hasSIGALRM \in BOOLEAN
    /\ fastAvailable \in BOOLEAN
    /\ PipelineStart
    /\ CacheStart
    /\ ConfigStart
    /\ FnStart

\* The state of a call when it starts, but for the fetch locals.
FreshRun ==
    /\ idx' = 0
    /\ alarm' = FALSE
    /\ persisted' = {}
    /\ fetchOk' = <<>>
    /\ priceRows' = FALSE
    /\ loaded' = {}
    /\ analysed' = {}
    /\ fracs' = <<>>
    /\ stages' = <<>>
    /\ outcome' = "none"

FreshCall == FreshRun /\ DropFetchLocals

\* engine.full_analysis(trade_date, progress_callback) is called.
StartFullAnalysis ==
    /\ pc \in {"idle", "done"}
    /\ runs < MaxRuns
    /\ runs' = runs + 1
    /\ mode' = IF fastAvailable THEN "fast" ELSE "standard"
    /\ \E k \in {"none", "flaky"} : cb' = k
    /\ pc' = "fa_begin"
    /\ FreshCall
    /\ UNCHANGED <<envVars, storeVars>>
    /\ UNCHANGED auxVars

\* full_analysis, lines 518-529: choose the data manager (fast when
\* performance_optimizer imports), first checkpoint 0.1.
FA_Begin ==
    /\ pc = "fa_begin"
    /\ \E raised \in CbRaises :
        /\ CallCb(Pct(10))
        /\ IF raised
           THEN Raise /\ UNCHANGED stages
           ELSE /\ EnterStage("AcquirePositions")
                /\ pc' = IF mode = "fast" THEN "fast_submit" ELSE "std_pos"
    /\ UNCHANGED <<envVars, storeVars, ctlVars, idx, fetchVars, alarm, runVars,
                   laterVars, outcome>>
    /\ UNCHANGED auxVars

\* ------------------------------------- FuturesDataManager.fetch_position_data
\* One iteration of the loop over exchange_config (lines 82-103).  The callback is
\* inside the try block: if it raises, the except clause skips the exchange.
StdPosIter ==
    /\ pc = "std_pos"
    /\ idx < NumSources
    /\ LET s == idx + 1 IN
       \E raised \in CbRaises, out \in UpstreamOutcomes :
        /\ CallCb(PosFrac(idx))
        /\ IF raised
           THEN /\ pc' = pc /\ idx' = idx + 1
                /\ UNCHANGED <<dataDir, persisted, gotData, successCount, attempts,
                               cause>>
           ELSE /\ attempts' = [attempts EXCEPT ![s] = 1]
                /\ CASE out = "data" ->
                          /\ Persist(s)
                          /\ gotData' = gotData \cup {s}
                          /\ successCount' = successCount + 1
                          /\ pc' = pc /\ idx' = idx + 1
                          /\ UNCHANGED cause
                     [] out = "hang" ->
                          /\ pc' = "blocked"
                          /\ UNCHANGED <<dataDir, persisted, gotData, successCount,
                                         cause, idx>>
                     [] OTHER ->
                          /\ cause' = [cause EXCEPT ![s] = out]
                          /\ pc' = pc /\ idx' = idx + 1
                          /\ UNCHANGED <<dataDir, persisted, gotData, successCount>>
    /\ UNCHANGED <<envVars, stCache, smartCache, ctlVars, failed, task, collected,
                   alarm, fetchOk, laterVars, stages, outcome>>
    /\ UNCHANGED auxVars

\* Lines 105-108: the closing checkpoint (outside the try block) and the result.
StdPosDone ==
    /\ pc = "std_pos"
    /\ idx = NumSources
    /\ \E raised \in CbRaises :
        /\ CallCb(Pct(60))
        /\ IF raised
           THEN Raise /\ DropFetchLocals /\ UNCHANGED fetchOk
           ELSE /\ fetchOk' = <<FetchResult(successCount)>>
                /\ pc' = "fa_pos_ret"
                /\ UNCHANGED fetchVars
    /\ UNCHANGED <<envVars, storeVars, ctlVars, idx, alarm, persisted, laterVars,
                   stages, outcome>>
    /\ UNCHANGED auxVars

\* ------------------------------------------------ full_analysis, lines 531-547
\* The position fetch has returned: abort with None when it reported failure,
\* otherwise announce the price fetch.
FA_PosRet ==
    /\ pc = "fa_pos_ret"
    /\ \E raised \in CbRaises :
        /\ CallCb(Pct(60))
        /\ IF raised
           THEN Raise /\ UNCHANGED <<outcome, stages, idx>>
           ELSE IF fetchOk = <<FALSE>>
           THEN /\ outcome' = "None"
                /\ pc' = "done"
                /\ UNCHANGED <<stages, idx>>
           ELSE /\ EnterStage("AcquirePrices")
                /\ pc' = IF mode = "fast" THEN "fast_price_call" ELSE "std_price"
                /\ idx' = 0
                /\ UNCHANGED outcome
    /\ DropFetchLocals
    /\ UNCHANGED <<envVars, storeVars, ctlVars, alarm, runVars, laterVars>>
    /\ UNCHANGED auxVars

\* --------------------------------------- FuturesDataManager.fetch_price_data
\* One iteration of the loop over price_exchanges (lines 119-131).
StdPriceIter ==
    /\ pc = "std_price"
    /\ idx < NumPriceEx
    /\ \E raised \in CbRaises, out \in UpstreamOutcomes :
        /\ CallCb(PriceFrac(idx))
        /\ IF raised
           THEN pc' = pc /\ idx' = idx + 1 /\ UNCHANGED priceRows
           ELSE CASE out = "data" -> pc' = pc /\ idx' = idx + 1 /\ priceRows' = TRUE
                  [] out = "hang" -> pc' = "blocked" /\ UNCHANGED <<idx, priceRows>>
                  [] OTHER -> pc' = pc /\ idx' = idx + 1 /\ UNCHANGED priceRows
    /\ UNCHANGED <<envVars, storeVars, ctlVars, fetchVars, alarm, runVars, loaded,
                   analysed, stages, outcome>>
    /\ UNCHANGED auxVars

\* Lines 133-136: closing checkpoint 0.8 and the merged table.
StdPriceDone ==
    /\ pc = "std_price"
    /\ idx = NumPriceEx
    /\ \E raised \in CbRaises :
        /\ CallCb(Pct(80))
        /\ IF raised THEN Raise ELSE pc' = "fa_load"
    /\ UNCHANGED <<envVars, storeVars, ctlVars, idx, fetchVars, alarm, runVars,
                   laterVars, stages, outcome>>
    /\ UNCHANGED auxVars

\* ------------------------------------- FuturesDataManager.load_position_data
\* Every artifact present in the data directory that can be read is loaded,
\* whichever run wrote it; unreadable is the set of files whose read raises.
LoadPositionData(unreadable) == {s \in Sources : dataDir[s] # 0} \ unreadable

\* ------------------------------------------------ full_analysis, lines 556-567
FA_Load ==
    /\ pc = "fa_load"
    /\ \E raised \in CbRaises, unreadable \in SUBSET {s \in Sources : dataDir[s] # 0} :
        /\ CallCb(Pct(80))
        /\ IF raised
           THEN Raise /\ UNCHANGED <<loaded, stages, idx>>
           ELSE /\ loaded' = LoadPositionData(unreadable)
                /\ idx' = 0
                /\ IF loaded' = {}
                   THEN /\ EnterStage("LoadSnapshots")
                        /\ pc' = "fa_nodata"
                   ELSE /\ stages' = stages \o <<"LoadSnapshots", "RunStrategies">>
                        /\ pc' = "fa_analyze"
    /\ UNCHANGED <<envVars, storeVars, ctlVars, fetchVars, alarm, runVars, priceRows,
                   analysed, outcome>>
    /\ UNCHANGED auxVars

\* Lines 561-563: no snapshot found, checkpoint 0.85.
FA_NoData ==
    /\ pc = "fa_nodata"
    /\ \E raised \in CbRaises :
        /\ CallCb(Pct(85))
        /\ IF raised THEN Raise ELSE pc' = "fa_term"
    /\ UNCHANGED <<envVars, storeVars, ctlVars, idx, fetchVars, alarm, runVars,
                   laterVars, stages, outcome>>
    /\ UNCHANGED auxVars

\* _analyze_positions, lines 603-650: one contract.  process_position_data may
\* return None (the contract is skipped); the strategies never raise.
FA_AnalyzeIter ==
    /\ pc = "fa_analyze"
    /\ idx < Cardinality(loaded)
    /\ \E raised \in CbRaises, processed \in BOOLEAN :
        /\ CallCb(AnalyzeFrac(idx, Cardinality(loaded)))
        /\ IF raised
           THEN Raise /\ UNCHANGED <<analysed, idx>>
           ELSE /\ analysed' = IF processed THEN analysed \cup {Nth(loaded, idx)}
                               ELSE analysed
                /\ idx' = idx + 1
                /\ pc' = IF idx + 1 = Cardinality(loaded) THEN "fa_term" ELSE pc
    /\ UNCHANGED <<envVars, storeVars, ctlVars, fetchVars, alarm, runVars, priceRows,
                   loaded, stages, outcome>>
    /\ UNCHANGED auxVars

\* Lines 569-578: checkpoint 0.9, then term structure unless the table is empty.
FA_Term ==
    /\ pc = "fa_term"
    /\ \E raised \in CbRaises :
        /\ CallCb(Pct(90))
        /\ IF raised
           THEN Raise /\ UNCHANGED stages
           ELSE IF priceRows
           THEN EnterStage("RunTermStructure") /\ pc' = "fa_summ"
           ELSE pc' = "fa_term_skip" /\ UNCHANGED stages
    /\ UNCHANGED <<envVars, storeVars, ctlVars, idx, fetchVars, alarm, runVars,
                   laterVars, outcome>>
    /\ UNCHANGED auxVars

\* Lines 576-578: the table is empty, checkpoint 0.92.
FA_TermSkip ==
    /\ pc = "fa_term_skip"
    /\ \E raised \in CbRaises :
        /\ CallCb(Pct(92))
        /\ IF raised THEN Raise ELSE pc' = "fa_summ"
    /\ UNCHANGED <<envVars, storeVars, ctlVars, idx, fetchVars, alarm, runVars,
                   laterVars, stages, outcome>>
    /\ UNCHANGED auxVars

\* Lines 580-584: checkpoint 0.95 and _generate_summary.
FA_Summ ==
    /\ pc = "fa_summ"
    /\ \E raised \in CbRaises :
        /\ CallCb(Pct(95))
        /\ IF raised
           THEN Raise /\ UNCHANGED stages
           ELSE EnterStage("Summarize") /\ pc' = "fa_finish"
    /\ UNCHANGED <<envVars, storeVars, ctlVars, idx, fetchVars, alarm, runVars,
                   laterVars, outcome>>
    /\ UNCHANGED auxVars

\* Lines 586-589: checkpoint 1.0 and the result.
FA_Finish ==
    /\ pc = "fa_finish"
    /\ \E raised \in CbRaises :
        /\ CallCb(Pct(100))
        /\ IF raised
           THEN Raise /\ UNCHANGED <<stages, outcome>>
           ELSE /\ EnterStage("Done")
                /\ outcome' = "result"
                /\ pc' = "done"
    /\ UNCHANGED <<envVars, storeVars, ctlVars, idx, fetchVars, alarm, runVars,
                   laterVars>>
    /\ UNCHANGED auxVars

\* Lines 591-596: the catch-all handler reports 1.0 and returns None; an exception
\* raised by the callback here leaves full_analysis.
FA_Except ==
    /\ pc = "fa_except"
    /\ \E raised \in CbRaises :
        /\ CallCb(Pct(100))
        /\ outcome' = IF raised THEN "raised" ELSE "None"
        /\ pc' = "done"
    /\ UNCHANGED <<envVars, storeVars, ctlVars, idx, fetchVars, alarm, runVars,
                   laterVars, stages>>
    /\ UNCHANGED auxVars

\* ------------------------------------------------------- cached_data_fetch
Running(t) == task[t] \in {"calling", "sleeping", "hung"}

Finished(t) == task[t] \in {"ok", "fail"}

\* cached_data_fetch returns res ("data", or "nodata": None or an empty result)
\* for task t, and why says how it came to it; st.cache_data keeps the returned
\* value.  For a position task of the fast manager,
\* _fetch_single_exchange_data_with_timeout (lines 313-329) then writes the artifact
\* when the result is truthy.  signal.alarm(0) has run on every way out.
FinishTask(t, res, why) ==
    /\ stCache' = [stCache EXCEPT ![t] = res]
    /\ alarm' = FALSE
    /\ cause' = [cause EXCEPT ![t] = why]
    /\ IF res = "data"
       THEN /\ gotData' = gotData \cup {t}
            /\ task' = [task EXCEPT ![t] = "ok"]
            /\ IF mode = "fast" /\ t \in Sources
               THEN Persist(t)
               ELSE UNCHANGED <<dataDir, persisted>>
       ELSE /\ task' = [task EXCEPT ![t] = "fail"]
            /\ UNCHANGED <<gotData, dataDir, persisted>>

\* Variant of WorkerFree for a pool without a limit on its threads.
WorkerAlwaysFree == TRUE

\* ThreadPoolExecutor(max_workers=2), lines 263 and 351: a submitted task starts
\* only when fewer than max_workers tasks are executing.
WorkerFree == Cardinality({u \in TaskIds : Running(u)}) < MaxWorkers

\* A worker takes the next submitted task (or the main thread enters a direct
\* call).  Lines 137-159: a cached value is returned without running the body;
\* otherwise the SIGALRM handler is installed, which raises ValueError outside
\* the main thread (caught at line 201: the upstream call is never made), and the
\* alarm is armed once, before the first upstream call.
Task_Start(t) ==
    /\ task[t] = "queued"
    /\ \A u \in TaskIds : u < t => task[u] # "queued"
    /\ WorkerFree
    /\ IF stCache[t] # "miss"
       THEN /\ FinishTask(t, stCache[t], "cached")
            /\ UNCHANGED attempts
       ELSE IF hasSIGALRM /\ mode # "direct"
       THEN /\ FinishTask(t, "nodata", "error")
            /\ UNCHANGED attempts
       ELSE /\ task' = [task EXCEPT ![t] = "calling"]
            /\ attempts' = [attempts EXCEPT ![t] = 1]
            /\ alarm' = hasSIGALRM
            /\ UNCHANGED <<stCache, gotData, cause, dataDir, persisted>>
    /\ UNCHANGED <<envVars, smartCache, ctlVars, pc, idx, successCount, failed,
                   collected, fetchOk, laterVars, fracs, stages, outcome>>
    /\ UNCHANGED auxVars

\* Lines 161-196: the upstream call of task t returns or raises.  Only the GFEX
\* function is retried (lines 171-182), after time.sleep(3).
Task_Return(t) ==
    /\ task[t] = "calling"
    /\ \E out \in {"data", "empty", "error"} :
        IF out = "error" /\ t = Gfex /\ attempts[t] < GfexMaxRetries
        THEN /\ task' = [task EXCEPT ![t] = "sleeping"]
             /\ UNCHANGED <<stCache, alarm, gotData, cause, dataDir, persisted>>
        ELSE FinishTask(t, IF out = "data" THEN "data" ELSE "nodata", out)
    /\ UNCHANGED <<envVars, smartCache, ctlVars, pc, idx, successCount, failed,
                   attempts, collected, fetchOk, laterVars, fracs, stages, outcome>>
    /\ UNCHANGED auxVars

\* The upstream call of task t never returns.
Task_Hang(t) ==
    /\ task[t] = "calling"
    /\ task' = [task EXCEPT ![t] = "hung"]
    /\ UNCHANGED <<envVars, storeVars, ctlVars, pc, idx, successCount, failed, gotData,
                   attempts, cause, collected, alarm, runVars, laterVars, fracs, stages,
                   outcome>>
    /\ UNCHANGED auxVars

\* Lines 172-176: the next attempt of the GFEX loop; the alarm is not armed again.
Task_Retry(t) ==
    /\ task[t] = "sleeping"
    /\ task' = [task EXCEPT ![t] = "calling"]
    /\ attempts' = [attempts EXCEPT ![t] = attempts[t] + 1]
    /\ UNCHANGED <<envVars, storeVars, ctlVars, pc, idx, successCount, failed, gotData,
                   cause, collected, alarm, runVars, laterVars, fracs, stages, outcome>>
    /\ UNCHANGED auxVars

\* SIGALRM is delivered: timeout_handler raises TimeoutError in the main thread.
\* Inside the GFEX try block (line 178) it is caught like any other error; during
\* the sleep of the handler, or for any other function, it reaches line 198.
Alarm_Fire(t) ==
    /\ alarm
    /\ Running(t)
    /\ IF t = Gfex /\ task[t] # "sleeping" /\ attempts[t] < GfexMaxRetries
       THEN /\ task' = [task EXCEPT ![t] = "sleeping"]
            /\ alarm' = FALSE
            /\ UNCHANGED <<stCache, gotData, cause, dataDir, persisted>>
       ELSE FinishTask(t, "nodata", "timeout")
    /\ UNCHANGED <<envVars, smartCache, ctlVars, pc, idx, successCount, failed,
                   attempts, collected, fetchOk, laterVars, fracs, stages, outcome>>
    /\ UNCHANGED auxVars

\* ---------------------------------- FastDataManager.fetch_position_data_fast
\* Lines 263-271: one task per exchange, submitted in priority order.
Fast_Submit ==
    /\ pc = "fast_submit"
    /\ task' = [t \in TaskIds |-> IF t \in Sources THEN "queued" ELSE "none"]
    /\ pc' = "fast_collect"
    /\ idx' = 0
    /\ UNCHANGED <<envVars, storeVars, ctlVars, successCount, failed, gotData, attempts,
                   cause, collected, alarm, runVars, laterVars, fracs, stages, outcome>>
    /\ UNCHANGED auxVars

\* Lines 274-292: as_completed hands over a finished future; the callback is
\* outside the try block.
Fast_Collect(t) ==
    /\ pc = "fast_collect"
    /\ t \in Sources \ collected
    /\ Finished(t)
    /\ \E raised \in CbRaises :
        /\ CallCb(PosFrac(idx))
        /\ IF raised
           THEN /\ pc' = "fast_unwind"
                /\ UNCHANGED <<idx, successCount, failed, collected>>
           ELSE /\ pc' = pc
                /\ idx' = idx + 1
                /\ collected' = collected \cup {t}
                /\ IF task[t] = "ok"
                   THEN successCount' = successCount + 1 /\ UNCHANGED failed
                   ELSE failed' = failed \cup {t} /\ UNCHANGED successCount
    /\ UNCHANGED <<envVars, storeVars, ctlVars, gotData, task, attempts, cause, alarm,
                   runVars, laterVars, stages, outcome>>
    /\ UNCHANGED auxVars

\* Lines 294-303: every future has been handed over and the pool is shut down.
Fast_Done ==
    /\ pc = "fast_collect"
    /\ collected = Sources
    /\ \E raised \in CbRaises :
        /\ CallCb(Pct(60))
        /\ IF raised
           THEN Raise /\ DropFetchLocals /\ UNCHANGED fetchOk
           ELSE /\ fetchOk' = <<FetchResult(successCount)>>
                /\ pc' = "fa_pos_ret"
                /\ UNCHANGED fetchVars
    /\ UNCHANGED <<envVars, storeVars, ctlVars, idx, alarm, persisted, laterVars,
                   stages, outcome>>
    /\ UNCHANGED auxVars

\* An exception leaves the with-block: ThreadPoolExecutor.__exit__ waits for every
\* submitted task before the exception travels on.
Fast_Unwind ==
    /\ pc = "fast_unwind"
    /\ \A t \in TaskIds : task[t] \in {"none", "ok", "fail"}
    /\ Raise
    /\ DropFetchLocals
    /\ UNCHANGED <<envVars, storeVars, ctlVars, idx, alarm, runVars, laterVars, fracs,
                   stages, outcome>>
    /\ UNCHANGED auxVars

\* ------------------------------------- FastDataManager.fetch_price_data_fast
\* smart_cache wrapper, lines 115-127: the key is built from str(args), which holds
\* the repr of the manager and of the callback, so an entry of an earlier call may
\* or may not be found; on a miss one task per market is submitted (lines 351-361).
FastPrice_Call ==
    /\ pc = "fast_price_call"
    /\ \E hit \in (IF smartCache = "absent" THEN {FALSE} ELSE BOOLEAN) :
        IF hit
        THEN /\ priceRows' = (smartCache = "rows")
             /\ pc' = "fa_load"
             /\ UNCHANGED task
        ELSE /\ task' = [t \in TaskIds |-> IF t \in PriceIds THEN "queued" ELSE "none"]
             /\ pc' = "fastp_collect"
             /\ UNCHANGED priceRows
    /\ idx' = 0
    /\ UNCHANGED <<envVars, storeVars, ctlVars, successCount, failed, gotData, attempts,
                   cause, collected, alarm, runVars, loaded, analysed, fracs, stages,
                   outcome>>
    /\ UNCHANGED auxVars

\* Lines 363-377.
FastPrice_Collect(t) ==
    /\ pc = "fastp_collect"
    /\ t \in PriceIds \ collected
    /\ Finished(t)
    /\ \E raised \in CbRaises :
        /\ CallCb(PriceFrac(idx))
        /\ IF raised
           THEN /\ pc' = "fast_unwind"
                /\ UNCHANGED <<idx, collected, priceRows>>
           ELSE /\ pc' = pc
                /\ idx' = idx + 1
                /\ collected' = collected \cup {t}
                /\ priceRows' = (priceRows \/ task[t] = "ok")
    /\ UNCHANGED <<envVars, storeVars, ctlVars, successCount, failed, gotData, task,
                   attempts, cause, alarm, runVars, loaded, analysed, stages, outcome>>
    /\ UNCHANGED auxVars

\* Lines 379-382, then smart_cache lines 130-133: the table, even an empty one, is
\* not None and is saved.
FastPrice_Done ==
    /\ pc = "fastp_collect"
    /\ collected = PriceIds
    /\ \E raised \in CbRaises :
        /\ CallCb(Pct(80))
        /\ IF raised
           THEN Raise /\ UNCHANGED smartCache
           ELSE /\ smartCache' = IF priceRows THEN "rows" ELSE "empty"
                /\ pc' = "fa_load"
    /\ DropFetchLocals
    /\ UNCHANGED <<envVars, dataDir, stCache, ctlVars, idx, alarm, runVars, laterVars,
                   stages, outcome>>
    /\ UNCHANGED auxVars

\* The ttl of st.cache_data (3600 s) has passed for every entry.
StCacheExpire ==
    /\ pc \in {"idle", "done"}
    /\ \E t \in TaskIds : stCache[t] # "miss"
    /\ stCache' = [t \in TaskIds |-> "miss"]
    /\ UNCHANGED <<envVars, dataDir, smartCache, ctlVars, pc, idx, fetchVars, alarm,
                   runVars, laterVars, fracs, stages, outcome>>
    /\ UNCHANGED auxVars

\* ----------------------------------- direct call of cached_data_fetch
\* cached_data_fetch(func_name, date[, exchange]) is called from the main thread
\* for the function of task t.
StartCachedFetch ==
    /\ pc \in {"idle", "done"}
    /\ runs < MaxRuns
    /\ runs' = runs + 1
    /\ mode' = "direct"
    /\ cb' = "none"
    /\ pc' = "direct_call"
    /\ FreshRun
    /\ successCount' = 0 /\ failed' = {} /\ gotData' = {} /\ collected' = {}
    /\ attempts' = NoAttempts /\ cause' = NoTasks
    /\ \E t \in TaskIds : task' = [NoTasks EXCEPT ![t] = "queued"]
    /\ UNCHANGED <<envVars, storeVars>>
    /\ UNCHANGED auxVars

\* The direct call has returned its value.
Direct_Return ==
    /\ pc = "direct_call"
    /\ \E t \in TaskIds : Finished(t)
    /\ outcome' = "returned"
    /\ pc' = "done"
    /\ UNCHANGED <<envVars, storeVars, ctlVars, idx, fetchVars, alarm, runVars,
                   laterVars, fracs, stages>>
    /\ UNCHANGED auxVars

\* ------------------------ CloudDataFetcher.fetch_position_data_with_fallback
StartCloudFetch ==
    /\ pc \in {"idle", "done"}
    /\ runs < MaxRuns
    /\ runs' = runs + 1
    /\ mode' = "cloud"
    /\ \E k \in {"none", "flaky"} : cb' = k
    /\ pc' = "cloud_begin"
    /\ FreshCall
    /\ UNCHANGED <<envVars, storeVars>>
    /\ UNCHANGED auxVars

\* Lines 73-81: without akshare the fetch returns False at once.
Cloud_Begin ==
    /\ pc = "cloud_begin"
    /\ \E imported \in BOOLEAN :
        IF imported
        THEN pc' = "cloud_iter" /\ UNCHANGED <<fetchOk, outcome>>
        ELSE fetchOk' = <<FALSE>> /\ outcome' = "returned" /\ pc' = "done"
    /\ UNCHANGED <<envVars, storeVars, ctlVars, idx, fetchVars, alarm, persisted,
                   laterVars, fracs, stages>>
    /\ UNCHANGED auxVars

\* Lines 121-124: the checkpoint of exchange idx + 1; the callback is outside the
\* try block, so an exception leaves the function.
Cloud_Iter ==
    /\ pc = "cloud_iter"
    /\ idx < NumSources
    /\ \E raised \in CbRaises :
        /\ CallCb(CloudPosFrac(idx))
        /\ IF raised
           THEN outcome' = "raised" /\ pc' = "done"
           ELSE pc' = "cloud_call" /\ UNCHANGED outcome
    /\ UNCHANGED <<envVars, storeVars, ctlVars, idx, fetchVars, alarm, runVars,
                   laterVars, stages>>
    /\ UNCHANGED auxVars

\* safe_akshare_call, lines 45-68, one attempt, and lines 132-148 once it returned:
\* an exception or a None result is retried until max_retries attempts were made;
\* any other result is returned, and persisted when it is truthy.
Cloud_Attempt ==
    /\ pc = "cloud_call"
    /\ LET s == idx + 1 IN
       \E out \in UpstreamOutcomes :
        /\ attempts' = [attempts EXCEPT ![s] = attempts[s] + 1]
        /\ CASE out = "data" ->
                  /\ Persist(s)
                  /\ gotData' = gotData \cup {s}
                  /\ successCount' = successCount + 1
                  /\ pc' = "cloud_iter" /\ idx' = idx + 1
                  /\ UNCHANGED cause
             [] out = "hang" ->
                  /\ pc' = "blocked"
                  /\ UNCHANGED <<dataDir, persisted, gotData, successCount, cause, idx>>
             [] out = "empty" ->
                  /\ cause' = [cause EXCEPT ![s] = "empty"]
                  /\ pc' = "cloud_iter" /\ idx' = idx + 1
                  /\ UNCHANGED <<dataDir, persisted, gotData, successCount>>
             [] OTHER ->
                  /\ IF attempts'[s] = CloudMaxRetries
                     THEN /\ cause' = [cause EXCEPT ![s] = "error"]
                          /\ pc' = "cloud_iter" /\ idx' = idx + 1
                     ELSE UNCHANGED <<cause, pc, idx>>
                  /\ UNCHANGED <<dataDir, persisted, gotData, successCount>>
    /\ UNCHANGED <<envVars, stCache, smartCache, ctlVars, failed, task, collected,
                   alarm, fetchOk, laterVars, fracs, stages, outcome>>
    /\ UNCHANGED auxVars

\* Lines 153-156.
Cloud_Done ==
    /\ pc = "cloud_iter"
    /\ idx = NumSources
    /\ \E raised \in CbRaises :
        /\ CallCb(Pct(60))
        /\ IF raised
           THEN outcome' = "raised" /\ UNCHANGED fetchOk
           ELSE outcome' = "returned" /\ fetchOk' = <<FetchResult(successCount)>>
    /\ pc' = "done"
    /\ UNCHANGED <<envVars, storeVars, ctlVars, idx, fetchVars, alarm, persisted,
                   laterVars, stages>>
    /\ UNCHANGED auxVars

Next ==
    \/ StartFullAnalysis
    \/ FA_Begin
    \/ StdPosIter
    \/ StdPosDone
    \/ FA_PosRet
    \/ StdPriceIter
    \/ StdPriceDone
    \/ FA_Load
    \/ FA_NoData
    \/ FA_AnalyzeIter
    \/ FA_Term
    \/ FA_TermSkip
    \/ FA_Summ
    \/ FA_Finish
    \/ FA_Except
    \/ \E t \in TaskIds : Task_Start(t)
    \/ \E t \in TaskIds : Task_Return(t)
    \/ \E t \in TaskIds : Task_Hang(t)
    \/ \E t \in TaskIds : Task_Retry(t)
    \/ \E t \in TaskIds : Alarm_Fire(t)
    \/ Fast_Submit
    \/ \E t \in TaskIds : Fast_Collect(t)
    \/ Fast_Done
    \/ Fast_Unwind
    \/ FastPrice_Call
    \/ \E t \in TaskIds : FastPrice_Collect(t)
    \/ FastPrice_Done
    \/ StCacheExpire
    \/ StartCachedFetch
    \/ Direct_Return
    \/ StartCloudFetch
    \/ Cloud_Begin
    \/ Cloud_Iter
    \/ Cloud_Attempt
    \/ Cloud_Done

Spec == Init /\ [][Next]_vars

\* ======================================================================
\* PerformanceOptimizer: the pickle cache, used sequentially
\* ======================================================================
\* pickle.dump(data, f): the stream of value v reaches the file in NumChunks
\* writes of the buffered file object.
Pickle(v) == [i \in 1..NumChunks |-> [of |-> v, part |-> i]]

\* The bytes a file has between its old end and a write beyond it.
Hole == [of |-> "None", part |-> 0]

\* f.write(chunk) at offset pos (0-based, in chunks) of a file holding data.
WriteAt(data, pos, chunk) ==
    [i \in 1..(IF Len(data) > pos + 1 THEN Len(data) ELSE pos + 1) |->
        IF i = pos + 1 THEN chunk
        ELSE IF i <= Len(data) THEN data[i] ELSE Hole]

RECURSIVE WriteFrom(_, _, _)
\* The writes of one pickle.dump from offset pos on, with no other writer.
WriteFrom(data, v, pos) ==
    IF pos = NumChunks THEN data
    ELSE WriteFrom(WriteAt(data, pos, Pickle(v)[pos + 1]), v, pos + 1)

\* save_to_cache(cache_key, v) run to completion at time t: open(path, 'wb')
\* truncates, pickle.dump writes, the file is closed.
SavedFile(v, t) == [data |-> WriteFrom(<<>>, v, 0), mtime |-> t]

\* pickle.load(f) on a file holding data: the value of a complete stream, an
\* exception on a truncated stream or one that starts with a hole, and an
\* exception or some other object on a stream pieced together from two values.
Unpickle(data) ==
    IF Len(data) < NumChunks \/ \E i \in 1..NumChunks : data[i].part # i
    THEN {"error"}
    ELSE IF \A i \in 1..NumChunks : data[i].of = data[1].of
    THEN {data[1].of}
    ELSE {"error", "garbled"}

\* Variant of IsCacheValid that still accepts an entry whose age equals the ttl.
IsCacheValidInclusive(file, t, maxAge) == Exists(file) /\ t - file.mtime <= maxAge

\* is_cache_valid(cache_path, max_age_hours) at time t.
IsCacheValid(file, t, maxAge) == Exists(file) /\ t - file.mtime < maxAge

\* load_from_cache(cache_key): the values it can return.  It calls is_cache_valid
\* without max_age_hours, and turns every exception into None.
LoadFromCache(k) ==
    IF IsCacheValid(cacheDir[k], now, DefaultMaxAgeHours)
    THEN {IF r = "error" THEN "None" ELSE r : r \in Unpickle(cacheDir[k].data)}
    ELSE {"None"}

\* Variant of EvictionDue that also removes an entry exactly as old as the limit.
EvictionDueInclusive(mtime, cutoff) == mtime <= cutoff

\* clear_old_cache: `if file_time < cutoff_time`.
EvictionDue(mtime, cutoff) == mtime < cutoff

\* The cache directory after clear_old_cache(max_age_days = days).
ClearedDir(days) ==
    [k \in Keys |->
        IF Exists(cacheDir[k])
           /\ EvictionDue(cacheDir[k].mtime, now - days * HoursPerDay)
        THEN NoFile ELSE cacheDir[k]]

Age(file) == IF Exists(file) THEN now - file.mtime ELSE -1

\* optimizer.save_to_cache(k, v), alone.
Cache_Save(k, v) ==
    /\ cacheDir' = [cacheDir EXCEPT ![k] = SavedFile(v, now)]
    /\ saved' = [saved EXCEPT ![k] = <<v, now>>]
    /\ cacheOp' = Op("save", k, "None", FALSE, Age(cacheDir[k]))
    /\ UNCHANGED <<pipeVars, cfgVars, now, writers, fnVars>>

\* optimizer.load_from_cache(k).
Cache_Load(k) ==
    /\ \E r \in LoadFromCache(k) : cacheOp' = Op("load", k, r, FALSE, Age(cacheDir[k]))
    /\ UNCHANGED <<pipeVars, cfgVars, now, cacheDir, saved, writers, fnVars>>

\* optimizer.clear_old_cache(max_age_days = days).
Cache_Clear(days) ==
    /\ cacheDir' = ClearedDir(days)
    /\ saved' = [k \in Keys |-> IF ClearedDir(days)[k] = NoFile THEN <<>> ELSE saved[k]]
    /\ cacheOp' = Op("clear", 0, "None", FALSE, days * HoursPerDay)
    /\ UNCHANGED <<pipeVars, cfgVars, now, writers, fnVars>>

\* Variant of ShouldSave that stores whatever the function returned.
ShouldSaveAlways(result) == TRUE

\* `if result is not None:` before save_to_cache, line 130.
ShouldSave(result) == result # "None"

\* A call of a function decorated with smart_cache(max_age_hours = SmartCacheHours)
\* whose arguments give key k (wrapper, lines 115-133): the entry is looked up with
\* load_from_cache; on a miss the function runs and returns res, or raises.
Cache_Call(k) ==
    /\ \E r \in LoadFromCache(k) :
        IF r # "None"
        THEN /\ cacheOp' = Op("call", k, r, FALSE, Age(cacheDir[k]))
             /\ UNCHANGED <<cacheDir, saved>>
        ELSE \E res \in Values \cup {"None", "raised"} :
             /\ cacheOp' = Op("call", k, res, TRUE, Age(cacheDir[k]))
             /\ IF res # "raised" /\ ShouldSave(res)
                THEN /\ cacheDir' = [cacheDir EXCEPT ![k] = SavedFile(res, now)]
                     /\ saved' = [saved EXCEPT ![k] = <<res, now>>]
                ELSE UNCHANGED <<cacheDir, saved>>
    /\ UNCHANGED <<pipeVars, cfgVars, now, writers, fnVars>>

\* An hour passes.
Cache_Tick ==
    /\ now < MaxHours
    /\ now' = now + 1
    /\ cacheOp' = Op("tick", 0, "None", FALSE, -1)
    /\ UNCHANGED <<pipeVars, cfgVars, cacheDir, saved, writers, fnVars>>

PipelineOff == hasSIGALRM = FALSE /\ fastAvailable = FALSE /\ PipelineStart

CacheInit == PipelineOff /\ CacheStart /\ ConfigStart /\ FnStart

CacheNext ==
    \/ \E k \in Keys, v \in Values : Cache_Save(k, v)
    \/ \E k \in Keys : Cache_Load(k)
    \/ \E days \in 0..MaxEvictDays : Cache_Clear(days)
    \/ \E k \in Keys : Cache_Call(k)
    \/ Cache_Tick

CacheSpec == CacheInit /\ [][CacheNext]_vars

\* ======================================================================
\* PerformanceOptimizer: the pickle cache, used by several threads
\* ======================================================================
\* save_to_cache(k, v) in thread w, line 78: open(cache_path, 'wb') creates or
\* truncates the file; the thread has its own file offset.  No lock is taken and
\* the file is written in place.
W_Open(w, k, v) ==
    /\ writers[w].st = "idle"
    /\ writers' = [writers EXCEPT ![w] = [st |-> "writing", key |-> k, val |-> v,
                                          pos |-> 0]]
    /\ cacheDir' = [cacheDir EXCEPT ![k] = [data |-> <<>>, mtime |-> now]]
    /\ cacheOp' = Op("write", 0, "None", FALSE, -1)
    /\ UNCHANGED <<pipeVars, cfgVars, now, saved, fnVars>>

\* Line 79: pickle.dump hands the next chunk to the file at the thread's offset.
W_Write(w) ==
    /\ writers[w].st = "writing"
    /\ writers[w].pos < NumChunks
    /\ LET k == writers[w].key
           pos == writers[w].pos IN
        /\ cacheDir' = [cacheDir EXCEPT ![k] =
                            [data |-> WriteAt(cacheDir[k].data, pos,
                                              Pickle(writers[w].val)[pos + 1]),
                             mtime |-> now]]
        /\ writers' = [writers EXCEPT ![w].pos = pos + 1]
    /\ cacheOp' = Op("write", 0, "None", FALSE, -1)
    /\ UNCHANGED <<pipeVars, cfgVars, now, saved, fnVars>>

\* The with-block is left: the file is closed and save_to_cache returns.
W_Close(w) ==
    /\ writers[w].st = "writing"
    /\ writers[w].pos = NumChunks
    /\ saved' = [saved EXCEPT ![writers[w].key] = <<writers[w].val, now>>]
    /\ writers' = [writers EXCEPT ![w] = IdleWriter]
    /\ cacheOp' = Op("write", 0, "None", FALSE, -1)
    /\ UNCHANGED <<pipeVars, cfgVars, now, cacheDir, fnVars>>

ConcNext ==
    \/ \E w \in Threads, k \in Keys, v \in Values : W_Open(w, k, v)
    \/ \E w \in Threads : W_Write(w)
    \/ \E w \in Threads : W_Close(w)
    \/ \E k \in Keys : Cache_Load(k)

ConcSpec == CacheInit /\ [][ConcNext]_vars

\* ======================================================================
\* PerformanceOptimizer.get_cache_key
\* ======================================================================
\* Argument values as Python sees them: a string, None, or an object of a class
\* that defines no __repr__ (FastDataManager, a callback function), which has
\* its attributes and the address it was allocated at.
StrV(s) == [kind |-> "str", text |-> s, field |-> "", at |-> 0]
NoneV == [kind |-> "none", text |-> "None", field |-> "", at |-> 0]
Obj(cls, f, a) == [kind |-> "obj", text |-> cls, field |-> f, at |-> a]

\* repr(v) as str(args) and str(list) apply it to each item: the quoted text of
\* a string, 'None', and for an object the default
\* '<module.Class object at 0x...>': class name and address, no attribute.
Repr(v) == [kind |-> v.kind, text |-> v.text, at |-> v.at]

StrSeq(items) == [i \in 1..Len(items) |-> Repr(items[i])]

\* sorted(kwargs.items()): the (name, value) pairs ordered by name.
ParamOrder == <<"progress_callback", "trade_date">>
ParamRank(n) == CHOOSE i \in 1..Len(ParamOrder) : ParamOrder[i] = n

RECURSIVE InsertItem(_, _)
InsertItem(sorted, item) ==
    IF sorted = <<>> THEN <<item>>
    ELSE IF ParamRank(item.name) < ParamRank(Head(sorted).name)
         THEN <<item>> \o sorted
         ELSE <<Head(sorted)>> \o InsertItem(Tail(sorted), item)

RECURSIVE SortedItems(_)
SortedItems(items) ==
    IF items = <<>> THEN <<>>
    ELSE InsertItem(SortedItems(Tail(items)), Head(items))

StrItems(items) == [i \in 1..Len(items) |->
                        [name |-> items[i].name, value |-> Repr(items[i].value)]]

\* hashlib.md5(...).hexdigest(): equal texts give equal digests; distinct texts
\* are taken to give distinct digests.
Md5(text) == [md5 |-> text]

\* get_cache_key, lines 60-61.
GetCacheKey(func_name, args, kwargs) ==
    Md5([name |-> func_name, args |-> StrSeq(args),
         kwargs |-> StrItems(SortedItems(kwargs))])

\* The calls of the wrapper (line 117): fetch_price_data_fast(self, trade_date,
\* progress_callback) with the two parameters passed by position or by keyword
\* in either order.  The receiver is the FastDataManager built for the run
\* (futures_analyzer.py line 522), the callback None or the caller's function.
FuncNames == {"fetch_price_data_fast", "fetch_position_data_fast"}
Dates == {"20240102", "20240103"}
Styles == {"positional", "keyword", "keyword_swapped"}
Addrs == 1..NumAddrs

Callback(cbAt) == IF cbAt = 0 THEN NoneV ELSE Obj("function", "update_progress", cbAt)

MkCall(name, at, date, cbAt, style) ==
    LET self == Obj("FastDataManager", "data", at)
        d == [name |-> "trade_date", value |-> StrV(date)]
        c == [name |-> "progress_callback", value |-> Callback(cbAt)] IN
    [name |-> name,
     args |-> IF style = "positional" THEN <<self, StrV(date), Callback(cbAt)>>
              ELSE <<self>>,
     kwargs |-> CASE style = "positional" -> <<>>
                  [] style = "keyword" -> <<d, c>>
                  [] OTHER -> <<c, d>>]

KeyCalls ==
    { MkCall(n, a, d, c, s) : n \in FuncNames, a \in Addrs, d \in Dates,
                               c \in 0..NumAddrs, s \in Styles }

KeyInit ==
    /\ PipelineOff
    /\ CacheStart
    /\ ConfigStart
    /\ fnIn \in { [fn |-> "get_cache_key", calls |-> <<a, b>>] : a \in KeyCalls, b \in KeyCalls }
    /\ fnOut = NoOutput

Key_Apply ==
    /\ fnIn.fn = "get_cache_key"
    /\ ~fnOut.done
    /\ fnOut' = [done |-> TRUE,
                 keys |-> [i \in 1..2 |-> GetCacheKey(fnIn.calls[i].name,
                                                       fnIn.calls[i].args,
                                                       fnIn.calls[i].kwargs)]]
    /\ UNCHANGED <<pipeVars, cfgVars, cacheVars, fnIn>>

KeyNext == Key_Apply

KeySpec == KeyInit /\ [][KeyNext]_vars

\* ======================================================================
\* StrategyAnalyzer: analyze_power_change and analyze_spider_web
\* ======================================================================
\* The signal texts of the strategies: "Long" is 看多, "Short" is 看空,
\* "Neutral" is 中性 and "Error" is 错误.  Strengths are exact fractions
\* [num, den] in lowest terms with den > 0; the floating-point values of the
\* code are taken as the fractions they approximate.
RECURSIVE Gcd(_, _)
Gcd(a, b) == IF b = 0 THEN a ELSE Gcd(b, a % b)

Abs(x) == IF x < 0 THEN -x ELSE x

Frac(n, d) ==
    LET g == Gcd(Abs(n), d) IN [num |-> n \div g, den |-> d \div g]

FracAdd(x, y) == Frac(x.num * y.den + y.num * x.den, x.den * y.den)
FracSub(x, y) == Frac(x.num * y.den - y.num * x.den, x.den * y.den)
FracGt(x, y) == x.num * y.den > y.num * x.den
FracAbs(x) == [num |-> Abs(x.num), den |-> x.den]
FracZero == Frac(0, 1)

Signal(direction, strength) == [done |-> TRUE, signal |-> direction, strength |-> strength]

\* Variant of PowerDirection whose comparisons admit zero.
PowerDirectionInclusive(long_chg, short_chg) ==
    IF long_chg >= 0 /\ short_chg <= 0 THEN "Long"
    ELSE IF long_chg <= 0 /\ short_chg >= 0 THEN "Short"
    ELSE "Neutral"

\* analyze_power_change, lines 239-244: the branch taken.
PowerDirection(long_chg, short_chg) ==
    IF long_chg > 0 /\ short_chg < 0 THEN "Long"
    ELSE IF long_chg < 0 /\ short_chg > 0 THEN "Short"
    ELSE "Neutral"

\* analyze_power_change, lines 233-244.
AnalyzePowerChange(long_chg, short_chg) ==
    LET strength == Abs(long_chg) + Abs(short_chg)
        direction == PowerDirection(long_chg, short_chg) IN
    Signal(direction, IF direction = "Neutral" THEN FracZero ELSE Frac(strength, 1))

\* A row of raw_data after process_position_data: the numeric columns hold a
\* number or NaN (pd.to_numeric with errors='coerce', line 194).
NaN == -1
Seat(l, s, v) == [long_open_interest |-> l, short_open_interest |-> s, vol |-> v]
SeatKinds ==
    << Seat(3, 1, 1), Seat(1, 3, 2), Seat(1, 1, 1), Seat(0, 0, 1),
       Seat(3, 1, NaN), Seat(3, 1, 0), Seat(NaN, 1, 1), Seat(3, NaN, 1),
       Seat(21, 19, 1), Seat(19, 21, 1) >>

\* Lines 255-259: the rows kept as valid seats.
IsValidSeat(row) ==
    /\ row.vol # NaN /\ row.vol > 0
    /\ row.long_open_interest # NaN
    /\ row.short_open_interest # NaN

\* Variant of TooFewSeats with the threshold one lower.
TooFewSeatsFour(n) == n < MinValidSeats - 1

\* Line 261.
TooFewSeats(n) == n < MinValidSeats

\* Line 265: stat = (long + short) / vol.
Stat(row) == Frac(row.long_open_interest + row.short_open_interest, row.vol)

\* Line 268: sort_values('stat', ascending=False) with the default sort kind,
\* which does not promise an order among rows of equal stat: every descending
\* arrangement of the rows is a possible outcome.
RECURSIVE SortOutcomes(_)
SortOutcomes(rows) ==
    IF rows = <<>> THEN {<<>>}
    ELSE LET x == Head(rows) IN
         UNION { { SubSeq(o, 1, i) \o <<x>> \o SubSeq(o, i + 1, Len(o)) :
                     i \in { j \in 0..Len(o) :
                               /\ \A m \in 1..j : ~FracGt(Stat(x), Stat(o[m]))
                               /\ \A m \in (j + 1)..Len(o) : ~FracGt(Stat(o[m]), Stat(x)) } } :
                 o \in SortOutcomes(Tail(rows)) }

\* Line 269: cutoff_index = max(2, int(len * 0.4)).
CutoffIndex(n) ==
    LET k == (n * CutoffTenths) \div 10 IN IF k > MinInformed THEN k ELSE MinInformed

\* Lines 278-288: (long - short) / (long + short) of the rows with positions.
HasPosition(row) == row.long_open_interest + row.short_open_interest > 0
Lean(row) == Frac(row.long_open_interest - row.short_open_interest,
                  row.long_open_interest + row.short_open_interest)

RECURSIVE SumLean(_)
SumLean(rows) == IF rows = <<>> THEN FracZero ELSE FracAdd(Lean(Head(rows)), SumLean(Tail(rows)))

\* np.mean.
MeanLean(rows) == LET s == SumLean(rows) IN Frac(s.num, s.den * Len(rows))

\* Variant of MsdDirection whose comparisons admit the thresholds.
MsdDirectionInclusive(msd) ==
    IF ~FracGt(Frac(1, MsdPerUnit), msd) THEN "Long"
    ELSE IF ~FracGt(msd, Frac(-1, MsdPerUnit)) THEN "Short"
    ELSE "Neutral"

\* Lines 296-301: msd > 0.05, msd < -0.05, else.
MsdDirection(msd) ==
    IF FracGt(msd, Frac(1, MsdPerUnit)) THEN "Long"
    ELSE IF FracGt(Frac(-1, MsdPerUnit), msd) THEN "Short"
    ELSE "Neutral"

\* Lines 268-301 for one outcome of the sort; the result is shown together
\* with the two groups of lines 271-272.
SpiderWebOf(sorted_seats) ==
    LET cutoff_index == CutoffIndex(Len(sorted_seats))
        its_rows == SubSeq(sorted_seats, 1, cutoff_index)
        uts_rows == SubSeq(sorted_seats, cutoff_index + 1, Len(sorted_seats))
        its == SelectSeq(its_rows, HasPosition)
        uts == SelectSeq(uts_rows, HasPosition)
        result == IF its = <<>> \/ uts = <<>> THEN Signal("Neutral", FracZero)
                  ELSE LET msd == FracSub(MeanLean(its), MeanLean(uts)) IN
                       Signal(MsdDirection(msd), FracAbs(msd))
    IN  [done |-> TRUE, signal |-> result.signal, strength |-> result.strength,
         its |-> its_rows, uts |-> uts_rows]

\* analyze_spider_web, lines 249-304: the results the call can give.
AnalyzeSpiderWeb(raw_data) ==
    LET valid_seats == SelectSeq(raw_data, IsValidSeat) IN
    IF TooFewSeats(Len(valid_seats))
    THEN {[done |-> TRUE, signal |-> "Neutral", strength |-> FracZero, its |-> <<>>, uts |-> <<>>]}
    ELSE { SpiderWebOf(sorted_seats) : sorted_seats \in SortOutcomes(valid_seats) }

\* ----------------------------------------------------------------------
\* analyze_retail_reverse
\* ----------------------------------------------------------------------
\* One side of a row: the party's name, its position and its change; NaN marks
\* a cell that is not a number (no position or change of the tables is -1).
Side(party, pos, chg) == [party |-> party, pos |-> pos, chg |-> chg]
RetailRow(l, s) ==
    [long_party_name |-> l.party, long_open_interest |-> l.pos,
     long_open_interest_chg |-> l.chg,
     short_party_name |-> s.party, short_open_interest |-> s.pos,
     short_open_interest_chg |-> s.chg]

\* pd.notna(x) ? x : 0 (lines 316-320); Series.sum() skips NaN the same way.
NumOrZero(x) == IF x = NaN THEN 0 ELSE x

RECURSIVE SumSeq(_)
SumSeq(xs) == IF xs = <<>> THEN 0 ELSE Head(xs) + SumSeq(Tail(xs))

\* Lines 312-320: the totals of one watched seat over all rows.
SeatStats(df, name) ==
    LET OnLong(x(_)) ==
            SumSeq([i \in 1..Len(df) |->
                        IF df[i].long_party_name = name THEN NumOrZero(x(df[i])) ELSE 0])
        OnShort(x(_)) ==
            SumSeq([i \in 1..Len(df) |->
                        IF df[i].short_party_name = name THEN NumOrZero(x(df[i])) ELSE 0])
    IN  [seat_name |-> name,
         long_chg |-> OnLong(LAMBDA r : r.long_open_interest_chg),
         short_chg |-> OnShort(LAMBDA r : r.short_open_interest_chg),
         long_pos |-> OnLong(LAMBDA r : r.long_open_interest),
         short_pos |-> OnShort(LAMBDA r : r.short_open_interest)]

\* Line 325: the seats that are kept.
IsActiveSeat(stats) == stats.long_pos > 0 \/ stats.short_pos > 0

\* Variant of LongCondition that wants the long side to shrink.
LongConditionStrict(seat) == seat.short_chg > 0 /\ seat.long_chg < 0

\* Lines 347 and 351.
LongCondition(seat) == seat.short_chg > 0 /\ seat.long_chg <= 0
ShortCondition(seat) == seat.long_chg > 0 /\ seat.short_chg <= 0

\* Lines 355-357.
PositionRatio(df, active_seats) ==
    LET total_position ==
            SumSeq([i \in 1..Len(df) |-> NumOrZero(df[i].long_open_interest)])
            + SumSeq([i \in 1..Len(df) |-> NumOrZero(df[i].short_open_interest)])
        retail_position ==
            SumSeq([i \in 1..Len(active_seats) |->
                        active_seats[i].long_pos + active_seats[i].short_pos])
    IN  IF total_position > 0 THEN Frac(retail_position, total_position) ELSE FracZero

\* analyze_retail_reverse, lines 306-381.
AnalyzeRetailReverse(df, retail_seats) ==
    LET active_seats ==
            SelectSeq([i \in 1..Len(retail_seats) |-> SeatStats(df, retail_seats[i])],
                      IsActiveSeat)
        Out(signal, strength) ==
            [done |-> TRUE, signal |-> signal, strength |-> strength,
             seat_details |-> active_seats]
    IN  IF active_seats = <<>> THEN Out("Neutral", FracZero)
        ELSE IF \A i \in 1..Len(active_seats) : LongCondition(active_seats[i])
        THEN Out("Long", PositionRatio(df, active_seats))
        ELSE IF \A i \in 1..Len(active_seats) : ShortCondition(active_seats[i])
        THEN Out("Short", PositionRatio(df, active_seats))
        ELSE Out("Neutral", FracZero)

\* The non-decreasing lists of len numbers of lo..hi: one list for each choice
\* of len rows from hi - lo + 1 kinds of rows.
RECURSIVE SortedLists(_, _, _)
SortedLists(len, lo, hi) ==
    IF len = 0 THEN {<<>>}
    ELSE UNION { { <<k>> \o q : q \in SortedLists(len - 1, k, hi) } : k \in lo..hi }

\* Inputs of analyze_retail_reverse: up to MaxRetailRows rows whose sides are
\* drawn from RetailSides (seats A and B can be watched, X never is), listed in
\* one row order each since the totals do not depend on the order, and a
\* watch-list.
RetailSides ==
    << Side("A", 2, -3), Side("A", 2, 3), Side("A", 2, 0), Side("A", 0, 3),
       Side("B", 2, -3), Side("B", 2, 3), Side("X", 4, 3), Side("X", NaN, NaN) >>
RetailTables(maxRows) ==
    LET n == Len(RetailSides)
        RowOf(k) == RetailRow(RetailSides[((k - 1) \div n) + 1], RetailSides[((k - 1) % n) + 1])
    IN  { [i \in 1..Len(q) |-> RowOf(q[i])] :
            q \in UNION { SortedLists(m, 1, n * n) : m \in 0..maxRows } }
WatchLists == { <<"A", "B">>, <<"A">> }

\* Inputs.  The changes are whole lots; the tables have up to MaxSeats rows.
\* The row order of a table only decides the order among rows of equal stat,
\* which SortOutcomes leaves open, so tables are listed in one row order each.
ChgValues == (-ChgRange..ChgRange) \cup {500, -300}
KindLists(maxSeats) == UNION { SortedLists(m, 1, Len(SeatKinds)) : m \in 0..maxSeats }
Tables(maxSeats) == { [i \in 1..Len(q) |-> SeatKinds[q[i]]] : q \in KindLists(maxSeats) }

StrategyInputs(maxSeats, maxRows) ==
    { [fn |-> "analyze_power_change", long_chg |-> l, short_chg |-> s, raw_data |-> <<>>] :
        l \in ChgValues, s \in ChgValues }
    \cup { [fn |-> "analyze_spider_web", long_chg |-> 0, short_chg |-> 0, raw_data |-> d] :
        d \in Tables(maxSeats) }
    \cup { [fn |-> "analyze_retail_reverse", long_chg |-> 0, short_chg |-> 0, raw_data |-> d,
             retail_seats |-> w] : d \in RetailTables(maxRows), w \in WatchLists }

StrategyInit ==
    /\ PipelineOff
    /\ CacheStart
    /\ ConfigStart
    /\ fnIn \in StrategyInputs(MaxSeats, MaxRetailRows)
    /\ fnOut = NoOutput

\* Variant of SnapshotAfter in which analyze_spider_web writes its stat column
\* into the snapshot's own table.
SnapshotAfterInPlace(snapshot) ==
    IF snapshot.fn = "analyze_spider_web"
    THEN [snapshot EXCEPT !.raw_data =
            [i \in 1..Len(@) |->
                [f \in DOMAIN @[i] \cup {"stat"} |-> IF f = "stat" THEN 0 ELSE @[i][f]]]]
    ELSE snapshot

\* The snapshot after a strategy call.  analyze_power_change and
\* analyze_retail_reverse only read data; analyze_spider_web assigns the stat
\* column (line 265) to valid_seats, a copy of the selected rows (line 259).
SnapshotAfter(snapshot) == snapshot

\* A second call on the same snapshot.  The sort of line 268 is one algorithm
\* run on the same rows in the same order: it arranges them as it did before.
EvaluateAgain(snapshot, first) ==
    CASE snapshot.fn = "analyze_power_change" ->
            {AnalyzePowerChange(snapshot.long_chg, snapshot.short_chg)}
      [] snapshot.fn = "analyze_spider_web" ->
            { r \in AnalyzeSpiderWeb(snapshot.raw_data) : r.its \o r.uts = first.its \o first.uts }
      [] OTHER -> {AnalyzeRetailReverse(snapshot.raw_data, snapshot.retail_seats)}

Strategy_PowerChange ==
    /\ fnIn.fn = "analyze_power_change"
    /\ ~fnOut.done
    /\ fnOut' = AnalyzePowerChange(fnIn.long_chg, fnIn.short_chg)
    /\ fnIn' = SnapshotAfter(fnIn)
    /\ UNCHANGED <<pipeVars, cfgVars, cacheVars>>

Strategy_SpiderWeb ==
    /\ fnIn.fn = "analyze_spider_web"
    /\ ~fnOut.done
    /\ fnOut' \in AnalyzeSpiderWeb(fnIn.raw_data)
    /\ fnIn' = SnapshotAfter(fnIn)
    /\ UNCHANGED <<pipeVars, cfgVars, cacheVars>>

Strategy_RetailReverse ==
    /\ fnIn.fn = "analyze_retail_reverse"
    /\ ~fnOut.done
    /\ fnOut' = AnalyzeRetailReverse(fnIn.raw_data, fnIn.retail_seats)
    /\ fnIn' = SnapshotAfter(fnIn)
    /\ UNCHANGED <<pipeVars, cfgVars, cacheVars>>

Strategy_Again ==
    /\ fnIn.fn \in {"analyze_power_change", "analyze_spider_web", "analyze_retail_reverse"}
    /\ fnOut.done
    /\ "first" \notin DOMAIN fnOut
    /\ \E r \in EvaluateAgain(fnIn, fnOut) :
            fnOut' = [f \in DOMAIN r \cup {"first"} |-> IF f = "first" THEN fnOut ELSE r[f]]
    /\ fnIn' = SnapshotAfter(fnIn)
    /\ UNCHANGED <<pipeVars, cfgVars, cacheVars>>

StrategyNext ==
    \/ Strategy_PowerChange
    \/ Strategy_SpiderWeb
    \/ Strategy_RetailReverse
    \/ Strategy_Again

StrategySpec == StrategyInit /\ [][StrategyNext]_vars

\* ======================================================================
\* FuturesAnalysisEngine: _generate_summary and _calculate_signal_resonance
\* ======================================================================
\* Contract names are texts "<exchange>_<sheet>" (line 148), here sequences of
\* characters; "D" stands for an exchange name.
LowerCase == <<"a", "b", "c", "d", "e", "f", "g", "h", "i", "j", "k", "m">>
UpperCase == <<"A", "B", "C", "D", "E", "F", "G", "H", "I", "J", "K", "M">>
IsAlpha(c) == \E i \in 1..Len(LowerCase) : c = LowerCase[i] \/ c = UpperCase[i]
ToUpper(c) ==
    IF \E i \in 1..Len(LowerCase) : c = LowerCase[i]
    THEN UpperCase[CHOOSE i \in 1..Len(LowerCase) : c = LowerCase[i]]
    ELSE c

\* extract_symbol, lines 716-727: the letters of the part after the last '_',
\* in upper case; the contract itself when no letter is left.
ExtractSymbol(contract) ==
    LET cuts == { i \in 1..Len(contract) : contract[i] = "_" }
        last == IF cuts = {} THEN 0 ELSE CHOOSE i \in cuts : \A j \in cuts : j <= i
        symbol_part == SubSeq(contract, last + 1, Len(contract))
        letters == SelectSeq(symbol_part, IsAlpha)
        symbol == [i \in 1..Len(letters) |-> ToUpper(letters[i])]
    IN  IF symbol # <<>> THEN symbol ELSE contract

\* strategy_names, line 665: power change, spider web, retail reverse.
StrategyNames == <<"power_change", "spider_web", "retail_reverse">>

\* Lines 671-685: the signals of one strategy and direction, in the order of
\* position_analysis.
RECURSIVE SignalsOf(_, _, _)
SignalsOf(position_results, s, direction) ==
    IF position_results = <<>> THEN <<>>
    ELSE LET data == Head(position_results)
             rest == SignalsOf(Tail(position_results), s, direction) IN
         IF data.strategies[s].signal = direction
         THEN <<[contract |-> data.contract, strength |-> data.strategies[s].strength]>> \o rest
         ELSE rest

\* Lines 688-689: list.sort(key=strength, reverse=True), a stable sort: equal
\* strengths keep their order.
RECURSIVE SortByStrength(_)
SortByStrength(signals) ==
    IF signals = <<>> THEN <<>>
    ELSE LET x == Head(signals)
             rest == SortByStrength(Tail(signals))
             ahead == { i \in 1..Len(rest) : rest[i].strength > x.strength }
             k == Cardinality(ahead) IN
         SubSeq(rest, 1, k) \o <<x>> \o SubSeq(rest, k + 1, Len(rest))

\* Variant of StrategySignals that leaves the lists in the order of the contracts.
StrategySignalsUnsorted(position_results) ==
    [s \in 1..Len(StrategyNames) |->
        [long |-> SignalsOf(position_results, s, "Long"),
         short |-> SignalsOf(position_results, s, "Short")]]

\* summary['strategy_signals'], lines 667-694.
StrategySignals(position_results) ==
    [s \in 1..Len(StrategyNames) |->
        [long |-> SortByStrength(SignalsOf(position_results, s, "Long")),
         short |-> SortByStrength(SignalsOf(position_results, s, "Short"))]]

\* Variant of TopSignals that takes the whole list.
TopSignalsAll(signals) == signals

\* signals[:10], lines 734 and 741.
TopSignals(signals) ==
    SubSeq(signals, 1, IF Len(signals) < TopN THEN Len(signals) ELSE TopN)

\* Lines 733-746 for one direction: one occurrence per signal visited, in the
\* order of the two loops.
RECURSIVE Occurrences(_, _, _)
Occurrences(strategy_signals, s, direction) ==
    IF s > Len(StrategyNames) THEN <<>>
    ELSE LET signals == TopSignals(IF direction = "Long" THEN strategy_signals[s].long
                                   ELSE strategy_signals[s].short) IN
         [i \in 1..Len(signals) |->
              [symbol |-> ExtractSymbol(signals[i].contract),
               strategy |-> StrategyNames[s],
               contract |-> signals[i].contract]]
         \o Occurrences(strategy_signals, s + 1, direction)

\* Lines 736-739: the entry of a symbol: count += 1 and the two appends for
\* every occurrence of the symbol.
SymbolInfo(occurrences, symbol) ==
    LET own == SelectSeq(occurrences, LAMBDA o : o.symbol = symbol) IN
    [count |-> Len(own),
     strategies |-> [i \in 1..Len(own) |-> own[i].strategy],
     contracts |-> [i \in 1..Len(own) |-> own[i].contract]]

\* Lines 751-752: the symbols whose count is at least 2.
ResonanceOf(strategy_signals, direction) ==
    LET occurrences == Occurrences(strategy_signals, 1, direction)
        symbols == { occurrences[i].symbol : i \in 1..Len(occurrences) } IN
    [symbol \in { y \in symbols : SymbolInfo(occurrences, y).count >= MinResonance } |->
        SymbolInfo(occurrences, symbol)]

\* _calculate_signal_resonance, lines 714-757.
CalculateSignalResonance(strategy_signals) ==
    [long |-> ResonanceOf(strategy_signals, "Long"),
     short |-> ResonanceOf(strategy_signals, "Short")]

\* summary['statistics'], lines 700-710.
Statistics(position_results, strategy_signals, signal_resonance) ==
    [total_contracts |-> Len(position_results),
     total_long_signals |->
        SumSeq([s \in 1..Len(StrategyNames) |-> Len(strategy_signals[s].long)]),
     total_short_signals |->
        SumSeq([s \in 1..Len(StrategyNames) |-> Len(strategy_signals[s].short)]),
     resonance_long_count |-> Cardinality(DOMAIN signal_resonance.long),
     resonance_short_count |-> Cardinality(DOMAIN signal_resonance.short)]

\* Inputs: position_analysis with nFill contracts of distinct symbols that carry
\* a strong Long signal of the first strategy only (the third strategy failed on
\* them), followed by NumFree
\* contracts drawn from two contracts of symbol M and one of symbol A, in the
\* order of FreeContracts, with any signals.
Result(signal, strength) == [signal |-> signal, strength |-> strength]
Filler(i) ==
    [contract |-> <<"D", "_", LowerCase[i + 1], "1">>,
     strategies |-> <<Result("Long", 5), Result("Neutral", 0), Result("Error", 0)>>]
FreeContracts == << <<"D", "_", "m", "1">>, <<"D", "_", "m", "5">>, <<"D", "_", "a", "1">> >>
FreeResults ==
    { <<Result(s1, IF s1 = "Neutral" THEN 0 ELSE w), Result(s2, IF s2 = "Neutral" THEN 0 ELSE 2),
        Result(s3, IF s3 = "Neutral" THEN 0 ELSE 3)>> :
        s1 \in {"Long", "Short", "Neutral"}, s2 \in {"Long", "Short", "Neutral"},
        s3 \in {"Long", "Neutral"}, w \in {1, 9} }
PositionResults(numFree) ==
    { [i \in 1..nFill |-> Filler(i)] \o [i \in 1..numFree |-> [contract |-> cs[i], strategies |-> rs[i]]] :
        nFill \in {0, TopN - 1, TopN},
        cs \in { [i \in 1..numFree |-> FreeContracts[q[i]]] :
                    q \in { r \in SortedLists(numFree, 1, Len(FreeContracts)) :
                            \A i \in 1..(numFree - 1) : r[i] < r[i + 1] } },
        rs \in [1..numFree -> FreeResults] }

ResonanceInit ==
    /\ PipelineOff
    /\ CacheStart
    /\ ConfigStart
    /\ fnIn \in { [fn |-> "_generate_summary", position_analysis |-> r] : r \in PositionResults(NumFree) }
    /\ fnOut = NoOutput

\* _generate_summary, lines 654-712.
Resonance_Summary ==
    /\ fnIn.fn = "_generate_summary"
    /\ ~fnOut.done
    /\ LET strategy_signals == StrategySignals(fnIn.position_analysis)
           signal_resonance == CalculateSignalResonance(strategy_signals) IN
        fnOut' = [done |-> TRUE,
                  strategy_signals |-> strategy_signals,
                  signal_resonance |-> signal_resonance,
                  statistics |-> Statistics(fnIn.position_analysis, strategy_signals,
                                            signal_resonance)]
    /\ UNCHANGED <<pipeVars, cfgVars, cacheVars, fnIn>>

ResonanceNext == Resonance_Summary

ResonanceSpec == ResonanceInit /\ [][ResonanceNext]_vars

\* ======================================================================
\* TermStructureAnalyzer, fed by FastDataManager.fetch_price_data_fast
\* ======================================================================
\* Symbols are texts, here sequences of characters.
Digits == <<"0", "1", "2", "3", "4", "5", "6", "7", "8", "9">>
IsDigit(c) == \E i \in 1..Len(Digits) : Digits[i] = c
DigitVal(c) == (CHOOSE i \in 1..Len(Digits) : Digits[i] = c) - 1

\* Variant of ExtractMonthInfo that puts every year in the 2000s.
ExtractMonthInfoOneCentury(symbol) ==
    LET n == Len(symbol) IN
    IF n >= 4 /\ \A i \in (n - 3)..n : IsDigit(symbol[i])
    THEN (10 * DigitVal(symbol[n - 3]) + DigitVal(symbol[n - 2]) + 2000) * 100
         + 10 * DigitVal(symbol[n - 1]) + DigitVal(symbol[n])
    ELSE UnparsedKey

\* extract_month_info, lines 438-452: the last four characters, when all are
\* digits, read as YYMM.
ExtractMonthInfo(symbol) ==
    LET n == Len(symbol) IN
    IF n >= 4 /\ \A i \in (n - 3)..n : IsDigit(symbol[i])
    THEN LET yy == 10 * DigitVal(symbol[n - 3]) + DigitVal(symbol[n - 2])
             month == 10 * DigitVal(symbol[n - 1]) + DigitVal(symbol[n])
             year == IF yy < PivotYear THEN yy + 2000 ELSE yy + 1900 IN
         year * 100 + month
    ELSE UnparsedKey

\* _sort_contracts_by_month, lines 454-456: sort_values('sort_key'), ascending.
\* No table of this model holds two symbols of equal key.
RECURSIVE SortContractsByMonth(_)
SortContractsByMonth(rows) ==
    IF rows = <<>> THEN <<>>
    ELSE LET x == Head(rows)
             rest == SortContractsByMonth(Tail(rows))
             k == Cardinality({ i \in 1..Len(rest) :
                                  ExtractMonthInfo(rest[i].symbol) < ExtractMonthInfo(x.symbol) }) IN
         SubSeq(rest, 1, k) \o <<x>> \o SubSeq(rest, k + 1, Len(rest))

\* Variant of DetermineStructureStrict that lets equal neighbours pass.
DetermineStructureLoose(prices) ==
    IF Len(prices) < 2 THEN "flat"
    ELSE IF \A i \in 1..(Len(prices) - 1) : prices[i] >= prices[i + 1] THEN "back"
    ELSE IF \A i \in 1..(Len(prices) - 1) : prices[i] <= prices[i + 1] THEN "contango"
    ELSE "flat"

\* _determine_structure_strict, lines 465-485.
DetermineStructureStrict(prices) ==
    IF Len(prices) < 2 THEN "flat"
    ELSE IF \A i \in 1..(Len(prices) - 1) : ~(prices[i] <= prices[i + 1]) THEN "back"
    ELSE IF \A i \in 1..(Len(prices) - 1) : ~(prices[i] >= prices[i + 1]) THEN "contango"
    ELSE "flat"

\* price_data['variety'].unique(), line 401: the varieties in the order of
\* their first rows.
RECURSIVE Unique(_)
Unique(xs) ==
    IF xs = <<>> THEN <<>>
    ELSE LET init == Unique(SubSeq(xs, 1, Len(xs) - 1))
             x == xs[Len(xs)] IN
         IF \E i \in 1..Len(init) : init[i] = x THEN init ELSE Append(init, x)

\* Variant of ValidClose that keeps a close of zero.
ValidCloseOrZero(r) == r.close # NaN /\ r.close >= 0

\* Lines 407-410: close > 0 and not NaN.
ValidClose(r) == r.close > 0 /\ r.close # NaN

\* Lines 404-428 for one variety: <<>> when the variety is skipped, else the
\* one result tuple.
VarietyResult(price_data, variety) ==
    LET variety_data ==
            SelectSeq(price_data,
                      LAMBDA r : r.variety = variety /\ ValidClose(r))
        sorted == SortContractsByMonth(variety_data) IN
    IF Len(variety_data) < MinContracts THEN <<>>
    ELSE LET closes == [i \in 1..Len(sorted) |-> sorted[i].close] IN
         << [variety |-> variety, structure |-> DetermineStructureStrict(closes),
             contracts |-> [i \in 1..Len(sorted) |-> sorted[i].symbol],
             closes |-> closes] >>

\* analyze_term_structure, lines 386-432.
RECURSIVE ResultsOf(_, _)
ResultsOf(price_data, varieties) ==
    IF varieties = <<>> THEN <<>>
    ELSE VarietyResult(price_data, Head(varieties)) \o ResultsOf(price_data, Tail(varieties))

AnalyzeTermStructure(price_data) ==
    IF price_data = <<>> THEN <<>>
    ELSE ResultsOf(price_data, Unique([i \in 1..Len(price_data) |-> price_data[i].variety]))

\* fetch_price_data_fast, lines 363-382: the tables of the exchanges that
\* answered, appended in the order in which their tasks complete, then
\* concatenated.  A response <<>> is None or an empty table.
RECURSIVE ConcatInOrder(_, _)
ConcatInOrder(responses, order) ==
    IF order = <<>> THEN <<>>
    ELSE responses[Head(order)] \o ConcatInOrder(responses, Tail(order))

\* The orders in which the tasks of the pool can complete: task k starts only
\* when fewer than max_workers earlier tasks are still running (line 351).
CompletionOrders ==
    { o \in [1..NumPriceEx -> 1..NumPriceEx] :
        /\ \A i, j \in 1..NumPriceEx : o[i] = o[j] => i = j
        /\ \A p \in 1..NumPriceEx : o[p] <= (p - 1) + MaxWorkers }

\* Upstream responses.  The first exchange lists up to MaxQuotes contracts of
\* variety M with any close; every other exchange fails or lists two contracts
\* of a variety of its own.
Quote(symbol, close, variety) == [symbol |-> symbol, close |-> close, variety |-> variety]
TermSymbols ==
    { <<"M", "2", "4", "0", "5">>, <<"M", "9", "9", "1", "2">>, <<"M", "0">> }
TermCloses == {NaN, 0, 90, 100}
FirstResponses(maxQuotes) ==
    { q \in UNION { [1..m -> { Quote(y, c, "M") : y \in TermSymbols, c \in TermCloses }] :
                        m \in 0..maxQuotes } :
        \A i, j \in 1..Len(q) : q[i].symbol = q[j].symbol => i = j }
OtherVarieties == <<"-", "A", "B", "C">>
OtherResponse(e, answered) ==
    IF answered
    THEN << Quote(<<OtherVarieties[e], "2", "4", "0", "5">>, 100, OtherVarieties[e]),
            Quote(<<OtherVarieties[e], "2", "4", "0", "9">>, 90, OtherVarieties[e]) >>
    ELSE <<>>
Responses(maxQuotes, numEx) ==
    { [e \in 1..numEx |-> IF e = 1 THEN first ELSE OtherResponse(e, answered[e])] :
        first \in FirstResponses(maxQuotes), answered \in [2..numEx -> BOOLEAN] }

TermInit ==
    /\ PipelineOff
    /\ CacheStart
    /\ ConfigStart
    /\ fnIn \in { [fn |-> "term_structure", responses |-> r] : r \in Responses(MaxQuotes, NumPriceEx) }
    /\ fnOut = [done |-> FALSE, runs |-> <<>>]

\* One fast-mode run over the responses: fetch_price_data_fast, then
\* analyze_term_structure (full_analysis, lines 551 and 574).
Term_Run(order) ==
    /\ fnIn.fn = "term_structure"
    /\ Len(fnOut.runs) < MaxRuns
    /\ LET price_data == ConcatInOrder(fnIn.responses, order) IN
        fnOut' = [done |-> TRUE,
                  runs |-> Append(fnOut.runs,
                                  [price_data |-> price_data,
                                   term_structure |-> AnalyzeTermStructure(price_data)])]
    /\ UNCHANGED <<pipeVars, cfgVars, cacheVars, fnIn>>

TermNext == \E order \in CompletionOrders : Term_Run(order)

TermSpec == TermInit /\ [][TermNext]_vars

\* ======================================================================
\* FuturesAnalysisEngine._analyze_positions: the loop over the contracts
\* ======================================================================
\* What the body of a strategy does on a contract's data: it returns a
\* direction or raises on a data error.  A contract is [contract, columns,
\* body]: its name, the column names of its table as loaded, and the behaviour
\* of the three strategy bodies on the processed data.
BodyOutcomes == {"Long", "Neutral", "raises"}

\* Variant of Guarded without the except clause: the exception leaves the
\* strategy.
Unguarded(body) ==
    IF body = "raises" THEN [signal |-> "raised", reason |-> "", strength |-> 0]
    ELSE [signal |-> body, reason |-> "rationale", strength |-> IF body = "Neutral" THEN 0 ELSE 1]

\* try/except of a strategy (lines 232-247, 251-304, 308-381): an exception of
\* the body becomes the result ("错误", "数据处理错误：...", 0).
Guarded(body) ==
    IF body = "raises"
    THEN [signal |-> "Error", reason |-> "data processing error", strength |-> 0]
    ELSE [signal |-> body, reason |-> "rationale", strength |-> IF body = "Neutral" THEN 0 ELSE 1]

\* required_columns, lines 181-182.
RequiredColumns ==
    {"long_party_name", "long_open_interest", "long_open_interest_chg",
     "short_party_name", "short_open_interest", "short_open_interest_chg", "vol"}

\* The column names of the CZCE tables and the rename of lines 218-226.
CzceColumns ==
    {"g_party_n", "open_inten", "inten_intert", "t_party_n", "open_inten.1",
     "inten_intert.1", "vol"}
RenameCzce(col) ==
    CASE col = "g_party_n" -> "long_party_name"
      [] col = "open_inten" -> "long_open_interest"
      [] col = "inten_intert" -> "long_open_interest_chg"
      [] col = "t_party_n" -> "short_party_name"
      [] col = "open_inten.1" -> "short_open_interest"
      [] col = "inten_intert.1" -> "short_open_interest_chg"
      [] OTHER -> col

\* _standardize_columns, lines 214-228: the rename is applied only to a table
\* that has the column g_party_n.
StandardizeColumns(columns) ==
    IF "g_party_n" \in columns THEN { RenameCzce(col) : col \in columns } ELSE columns

\* Variant of HasRequiredColumns that does not ask for the vol column.
HasRequiredColumnsButVol(columns) == (RequiredColumns \ {"vol"}) \subseteq columns

\* all(col in df.columns for col in required_columns), line 184.
HasRequiredColumns(columns) == RequiredColumns \subseteq columns

\* process_position_data, lines 171-212: None for a table that lacks a required
\* column after the rename, the processed data otherwise.
ProcessPositionData(columns) ==
    IF HasRequiredColumns(StandardizeColumns(columns)) THEN "data" ELSE "None"

\* Tables: the canonical columns with one more, the CZCE columns, and two tables
\* that lack a column (vol; the CZCE column of the short open interest).
ColumnSets ==
    { RequiredColumns \cup {"rank"}, CzceColumns, RequiredColumns \ {"vol"},
      CzceColumns \ {"open_inten.1"} }
ContractKinds ==
    { [columns |-> RequiredColumns \cup {"rank"}, body |-> b] :
        b \in [1..Len(StrategyNames) -> BodyOutcomes] }
    \cup { [columns |-> cols, body |-> [s \in 1..Len(StrategyNames) |-> "Long"]] :
                cols \in ColumnSets }
AnalyzeInputs(maxLen) ==
    UNION { { [i \in 1..m |-> [contract |-> i, columns |-> k[i].columns, body |-> k[i].body]] :
                k \in [1..m -> ContractKinds] } : m \in 0..maxLen }

AnalyzeInit ==
    /\ PipelineOff
    /\ CacheStart
    /\ ConfigStart
    /\ fnIn \in { [fn |-> "_analyze_positions", position_data |-> q] : q \in AnalyzeInputs(MaxContracts) }
    /\ fnOut = [done |-> FALSE, i |-> 1, results |-> <<>>, aborted |-> FALSE]

\* One pass of the loop of lines 603-650.  An exception that leaves a strategy
\* would leave _analyze_positions too: it has no handler of its own.
Analyze_Iter ==
    /\ fnIn.fn = "_analyze_positions"
    /\ ~fnOut.done
    /\ fnOut.i <= Len(fnIn.position_data)
    /\ LET c == fnIn.position_data[fnOut.i]
           strategies == [s \in 1..Len(StrategyNames) |-> Guarded(c.body[s])] IN
        IF ProcessPositionData(c.columns) = "None"
        THEN fnOut' = [fnOut EXCEPT !.i = @ + 1]
        ELSE IF \E s \in 1..Len(StrategyNames) : strategies[s].signal = "raised"
        THEN fnOut' = [done |-> TRUE, i |-> fnOut.i, results |-> <<>>, aborted |-> TRUE]
        ELSE fnOut' = [fnOut EXCEPT !.i = @ + 1,
                                    !.results = Append(@, [contract |-> c.contract,
                                                           strategies |-> strategies])]
    /\ UNCHANGED <<pipeVars, cfgVars, cacheVars, fnIn>>

\* Line 652: return results.
Analyze_Return ==
    /\ fnIn.fn = "_analyze_positions"
    /\ ~fnOut.done
    /\ fnOut.i > Len(fnIn.position_data)
    /\ fnOut' = [fnOut EXCEPT !.done = TRUE]
    /\ UNCHANGED <<pipeVars, cfgVars, cacheVars, fnIn>>

AnalyzeNext == Analyze_Iter \/ Analyze_Return

AnalyzeSpec == AnalyzeInit /\ [][AnalyzeNext]_vars

\* ======================================================================
\* extract_symbol on the contract keys of load_position_data
\* ======================================================================
\* load_position_data names a contract f"{exchange_name}_{sheet_name}" (line 148).
\* "D" and "E" stand for two exchange names, which consist of characters that
\* str.isalpha() accepts; a sheet name is any text of 1..MaxSheetLen characters
\* out of letters of both cases, a digit and the underscore.
ExchangeNames == {"D", "E"}
SheetChars == {"m", "M", "a", "1", "_"}

RECURSIVE SheetNames(_)
SheetNames(len) ==
    IF len = 0 THEN {<<>>}
    ELSE { Append(s, c) : s \in SheetNames(len - 1), c \in SheetChars }

\* contract_key = f"{exchange_name}_{sheet_name}"
ContractKey(exchange_name, sheet_name) == <<exchange_name, "_">> \o sheet_name

ContractKeys(maxLen) ==
    { ContractKey(e, s) : e \in ExchangeNames,
                          s \in UNION { SheetNames(n) : n \in 1..maxLen } }

SymbolInit ==
    /\ PipelineOff
    /\ CacheStart
    /\ ConfigStart
    /\ fnIn \in { [fn |-> "extract_symbol", contracts |-> <<c1, c2>>] :
                    c1 \in ContractKeys(MaxSheetLen), c2 \in ContractKeys(MaxSheetLen) }
    /\ fnOut = NoOutput

\* Lines 735 and 743: the symbol under which each of the two contracts is counted.
Symbol_Extract ==
    /\ fnIn.fn = "extract_symbol"
    /\ ~fnOut.done
    /\ fnOut' = [done |-> TRUE,
                 symbols |-> [i \in 1..Len(fnIn.contracts) |->
                                ExtractSymbol(fnIn.contracts[i])]]
    /\ UNCHANGED <<pipeVars, cfgVars, cacheVars, fnIn>>

SymbolNext == Symbol_Extract

SymbolSpec == SymbolInit /\ [][SymbolNext]_vars

\* ======================================================================
\* cloud_config: get_cloud_optimized_config and apply_cloud_optimizations
\* ======================================================================
\* What is_cloud_environment reads: whether STREAMLIT_SHARING_MODE and
\* STREAMLIT_CLOUD are set, and the values of HOSTNAME and SERVER_NAME.
Environments ==
    [sharing_mode : BOOLEAN, cloud : BOOLEAN,
     hostname : {"localhost", "app.streamlit.io"},
     server_name : {"", "share.streamlit.io"}]

\* is_cloud_environment, lines 66-75.
IsCloudEnvironment(env) ==
    \/ env.sharing_mode
    \/ env.cloud
    \/ env.hostname = "app.streamlit.io"
    \/ env.server_name = "share.streamlit.io"

\* dict.copy(), line 84: a new top-level dict whose entries refer to the same
\* nested dicts as the original.
ShallowCopy(config) == [k \in DOMAIN config |-> config[k]]

\* config[section][key] = value on the heap h.
StoreItem(h, config, section, value) == [h EXCEPT ![config[section]].touched = value]

\* The values a caller reads through a configuration on the heap h.
ReadConfig(h, config) ==
    [gfex_timeout |-> h[config.timeouts].touched,
     max_workers |-> h[config.concurrency].touched]

\* get_cloud_optimized_config, lines 78-87: the configuration it returns and the
\* heap it leaves.
GetCloudOptimizedConfig(h, env) ==
    IF IsCloudEnvironment(env)
    THEN [config |-> CLOUD_CONFIG, heap |-> h]
    ELSE LET local_config == ShallowCopy(CLOUD_CONFIG)
             h1 == StoreItem(h, local_config, "timeouts", LocalGfexTimeout)
             h2 == StoreItem(h1, local_config, "concurrency", LocalMaxWorkers) IN
         [config |-> local_config, heap |-> h2]

\* The record kept of a call: the function, the environment it ran in, and the
\* values of the configuration it obtained, read when it returned.
CallRecord(fn, env, r) ==
    [fn |-> fn, cloud |-> IsCloudEnvironment(env), env |-> env,
     config |-> ReadConfig(r.heap, r.config)]

\* get_cloud_optimized_config() is called in environment env.
Config_Get(env) ==
    /\ Len(cfgCalls) < MaxConfigCalls
    /\ LET r == GetCloudOptimizedConfig(cfgHeap, env) IN
        /\ cfgHeap' = r.heap
        /\ cfgCalls' = Append(cfgCalls, CallRecord("get_cloud_optimized_config", env, r))
    /\ UNCHANGED <<pipeVars, cacheVars, fnVars>>

\* apply_cloud_optimizations(), lines 90-101: it fetches the configuration with
\* get_cloud_optimized_config and prints from it.
Config_Apply(env) ==
    /\ Len(cfgCalls) < MaxConfigCalls
    /\ LET config == GetCloudOptimizedConfig(cfgHeap, env) IN
        /\ cfgHeap' = config.heap
        /\ cfgCalls' = Append(cfgCalls, CallRecord("apply_cloud_optimizations", env, config))
    /\ UNCHANGED <<pipeVars, cacheVars, fnVars>>

ConfigInit == PipelineOff /\ CacheStart /\ ConfigStart /\ FnStart

ConfigNext ==
    \/ \E env \in Environments : Config_Get(env)
    \/ \E env \in Environments : Config_Apply(env)

ConfigSpec == ConfigInit /\ [][ConfigNext]_vars

\* ======================================================================
\* Claims
\* ======================================================================
EngineRun == mode \in {"standard", "fast"}

RunEnded == pc = "done" /\ outcome # "none"

\* C1: full_analysis returns None only when position acquisition had zero
\* successful sources: a run in which some source's position fetch succeeded ends
\* with a result object.
C1_NoneOnlyOnZeroSources ==
    (EngineRun /\ RunEnded /\ persisted # {}) => outcome = "result"

\* C2: fault isolation of fetch_position_data and fetch_position_data_fast (here
\* for calls without a progress callback): when the fetch returns, the upstream
\* fetch of every source has been attempted (or its cached value used), and every
\* source that returned data is persisted and counted.
C2_FaultIsolation ==
    (EngineRun /\ pc = "fa_pos_ret" /\ cb = "none") =>
        /\ \A s \in Sources : attempts[s] >= 1 \/ cause[s] = "cached"
        /\ gotData \subseteq persisted
        /\ successCount = Cardinality(gotData)

\* C3: a position fetch returns true iff at least one source's dataset was fetched
\* and persisted in this call.
C3_SucceededIffPersisted ==
    (fetchOk # <<>>) => (fetchOk[1] <=> persisted # {})

\* C3 witness: a fetch that returned true with some sources failed, and one that
\* persisted exactly one artifact.
C3_Witness ==
    /\ pc = "fa_pos_ret"
    /\ mode = "fast"
    /\ fetchOk = <<TRUE>>
    /\ failed # {}
    /\ Cardinality(persisted) = 1

\* C4: the contracts loaded and analysed in a run belong to sources whose position
\* fetch succeeded in that same run.
C4_OnlyThisRunsSnapshots ==
    EngineRun => (loaded \subseteq persisted /\ analysed \subseteq persisted)

\* The attempts each fetch path makes at most for a source: fetch_position_data
\* calls once, cached_data_fetch retries only GFEX, safe_akshare_call retries all.
MaxAttemptsOf(s) ==
    CASE mode = "cloud" -> CloudMaxRetries
      [] mode = "standard" -> 1
      [] OTHER -> IF s = Gfex THEN GfexMaxRetries ELSE 1

\* C5: a position source is given up after a timeout or an error only when its
\* attempts are exhausted, and never after more than the maximum.
C5_FailedOnlyAfterExhaustion ==
    \A s \in Sources :
        /\ attempts[s] <= MaxAttemptsOf(s)
        /\ cause[s] \in {"error", "timeout"} => attempts[s] = MaxAttemptsOf(s)

\* C6: fetch_position_data_fast and fetch_price_data_fast return even when one
\* upstream call never returns: while one of them collects its futures (here without
\* a progress callback) and at most one call hangs, some step of the program
\* remains possible.
C6_FastFetchKeepsGoing ==
    (/\ pc \in {"fast_collect", "fastp_collect"}
     /\ cb = "none"
     /\ Cardinality({t \in TaskIds : task[t] = "hung"}) <= 1) => ENABLED Next

\* C7: on a platform that has SIGALRM, whenever an upstream call of
\* cached_data_fetch is in progress a timeout for it is pending.
C7_EveryAttemptTimed ==
    hasSIGALRM => \A t \in TaskIds : task[t] \in {"calling", "hung"} => alarm

\* C8: the fractions passed to the progress callback during one call never
\* decrease, lie in [0, 1], and a run that returns a result ends with 1.0.
C8_ProgressMonotone ==
    /\ \A i \in 1..Len(fracs) : 0 <= fracs[i] /\ fracs[i] <= Scale
    /\ \A i \in 1..(Len(fracs) - 1) : fracs[i] <= fracs[i + 1]
    /\ (outcome = "result" /\ cb # "none") => fracs[Len(fracs)] = Scale

\* C8 witness: a fast-mode run returned a result after price collection, contract
\* analysis and term structure each reported progress.
C8_Witness ==
    /\ mode = "fast"
    /\ outcome = "result"
    /\ cb = "flaky"
    /\ Cardinality(analysed) >= 2
    /\ Len(stages) = Len(Stages)
    /\ Len(fracs) >= 14

\* C9: a raising progress callback does not prevent any source from being
\* fetched: when fetch_position_data returns, every source was attempted.
C9_CallbackBestEffort ==
    (mode = "standard" /\ pc = "fa_pos_ret") => \A s \in Sources : attempts[s] >= 1

StageIndex(name) == CHOOSE k \in 1..Len(Stages) : Stages[k] = name

\* The stages entered so far respect the fixed order and none was entered twice.
StagesInOrder ==
    \A i \in 1..(Len(stages) - 1) : StageIndex(stages[i]) < StageIndex(stages[i + 1])

\* Price acquisition starts only after the position fetch reported success.
PricesOnlyAfterSuccess ==
    (\E i \in 1..Len(stages) : stages[i] = "AcquirePrices") => fetchOk = <<TRUE>>

\* C10: the stages run in the fixed order, none twice, prices never after a failed
\* position fetch, and every run that is not aborted (its position fetch reported
\* success) reaches Summarize.
C10_StageOrder ==
    /\ StagesInOrder
    /\ PricesOnlyAfterSuccess
    /\ (EngineRun /\ RunEnded /\ fetchOk = <<TRUE>>) =>
            \E i \in 1..Len(stages) : stages[i] = "Summarize"

\* C11: a function wrapped with smart_cache(max_age_hours = h) never gets an entry
\* written more than h hours ago from the wrapper: the function is executed again.
C11_ExpiredNeverServed ==
    (cacheOp.op = "call" /\ cacheOp.age > SmartCacheHours) => cacheOp.ran

\* C12: round trip.  load_from_cache(k) returns the value of the last save to k
\* (not saved again or evicted since) while the age of the entry is below the ttl,
\* and None once the ttl has passed or when k holds no entry.
C12_RoundTrip ==
    cacheOp.op = "load" =>
        LET k == cacheOp.key IN
        cacheOp.result = IF saved[k] # <<>> /\ now - saved[k][2] < DefaultMaxAgeHours
                         THEN saved[k][1] ELSE "None"

\* C12 witness: a load returned the saved table one hour before its ttl ran out.
C12_Witness ==
    /\ cacheOp.op = "load"
    /\ cacheOp.result = "rows"
    /\ cacheOp.age = DefaultMaxAgeHours - 1

\* C15: load_from_cache leaves every file as it is; a file disappears only in
\* clear_old_cache, which removes exactly the files older than the given age and
\* leaves the others as they are.
C15_LookupFrame ==
    [][/\ cacheOp'.op = "load" => cacheDir' = cacheDir
       /\ \A k \in Keys :
            (Exists(cacheDir[k]) /\ ~Exists(cacheDir'[k])) => cacheOp'.op = "clear"
       /\ cacheOp'.op = "clear" =>
            \A k \in Keys :
                IF Exists(cacheDir[k]) /\ now - cacheDir[k].mtime > cacheOp'.age
                THEN cacheDir'[k] = NoFile
                ELSE cacheDir'[k] = cacheDir[k]]_vars

\* C15 witness: a lookup found an expired entry, returned None, and the file is
\* still there.
C15_Witness ==
    /\ cacheOp.op = "load"
    /\ cacheOp.result = "None"
    /\ cacheOp.age >= DefaultMaxAgeHours
    /\ Exists(cacheDir[cacheOp.key])
    /\ cacheDir[cacheOp.key].data = Pickle("rows")

\* C14: under concurrent save_to_cache and load_from_cache calls every load
\* returns None or a value that some save wrote in full, and once all saves have
\* finished a load of a key returns the value of the save that finished last
\* (while that entry is within its time to live).
C14_ConcurrentSafe ==
    cacheOp.op = "load" =>
        /\ cacheOp.result \in Values \cup {"None"}
        /\ ((\A w \in Threads : writers[w].st = "idle")
                /\ saved[cacheOp.key] # <<>>
                /\ now - saved[cacheOp.key][2] < DefaultMaxAgeHours)
                => cacheOp.result = saved[cacheOp.key][1]

\* C13: two get_cache_key calls with the same operation name, the same
\* positional arguments in order (same class and contents) and the same set of
\* keyword arguments produce the same key, whatever the order of the keyword
\* arguments; nothing else influences the key.
ArgValue(v) == [kind |-> v.kind, text |-> v.text, field |-> v.field]
SameArguments(a, b) ==
    /\ a.name = b.name
    /\ Len(a.args) = Len(b.args)
    /\ \A i \in 1..Len(a.args) : ArgValue(a.args[i]) = ArgValue(b.args[i])
    /\ { [name |-> a.kwargs[i].name, value |-> ArgValue(a.kwargs[i].value)] :
            i \in 1..Len(a.kwargs) }
       = { [name |-> b.kwargs[i].name, value |-> ArgValue(b.kwargs[i].value)] :
            i \in 1..Len(b.kwargs) }
C13_KeyDeterministic ==
    (fnIn.fn = "get_cache_key" /\ fnOut.done /\ SameArguments(fnIn.calls[1], fnIn.calls[2]))
        => fnOut.keys[1] = fnOut.keys[2]

\* C19: analyze_power_change gives Long iff long_chg > 0 and short_chg < 0,
\* Short iff long_chg < 0 and short_chg > 0 and Neutral otherwise; the strength
\* is |long_chg| + |short_chg| for Long and Short and 0 for Neutral.
C19_PowerChange ==
    (fnIn.fn = "analyze_power_change" /\ fnOut.done) =>
        LET l == fnIn.long_chg
            s == fnIn.short_chg IN
        /\ fnOut.signal \in {"Long", "Short", "Neutral"}
        /\ fnOut.signal = "Long" <=> (l > 0 /\ s < 0)
        /\ fnOut.signal = "Short" <=> (l < 0 /\ s > 0)
        /\ fnOut.signal # "Neutral" =>
                (fnOut.strength.den = 1
                 /\ fnOut.strength.num = (IF l < 0 THEN -l ELSE l) + (IF s < 0 THEN -s ELSE s))
        /\ fnOut.signal = "Neutral" => fnOut.strength.num = 0
C19_Witness ==
    /\ fnIn.fn = "analyze_power_change" /\ fnOut.done
    /\ fnIn.long_chg = 500 /\ fnIn.short_chg = -300
    /\ fnOut.signal = "Long" /\ fnOut.strength.num = 800

\* C20: analyze_spider_web gives Neutral with strength 0 for every table with
\* fewer than 5 qualifying rows (vol present and > 0, long and short open
\* interest present), whatever the rows hold.
QualifyingRows ==
    Cardinality({ i \in 1..Len(fnIn.raw_data) :
                    LET r == fnIn.raw_data[i] IN
                    /\ r.vol # NaN /\ r.vol > 0
                    /\ r.long_open_interest # NaN /\ r.short_open_interest # NaN })
C20_TooFewSeatsNeutral ==
    (fnIn.fn = "analyze_spider_web" /\ fnOut.done /\ QualifyingRows < 5) =>
        (fnOut.signal = "Neutral" /\ fnOut.strength.num = 0)
C20_Witness ==
    /\ fnIn.fn = "analyze_spider_web" /\ fnOut.done
    /\ QualifyingRows = 4 /\ Len(fnIn.raw_data) = 6
    /\ fnOut.signal = "Neutral" /\ fnOut.strength.num = 0

\* Helpers of C16-C18: the result of a summary call, the resonance entries of
\* a direction, and the strategies that contributed a top-10 signal of that
\* direction for a symbol.
SummaryDone == fnIn.fn = "_generate_summary" /\ fnOut.done
Directions == {"Long", "Short"}
EntriesOf(d) == IF d = "Long" THEN fnOut.signal_resonance.long ELSE fnOut.signal_resonance.short
ListOf(s, d) == IF d = "Long" THEN fnOut.strategy_signals[s].long ELSE fnOut.strategy_signals[s].short
TopTen(s, d) == { ListOf(s, d)[i].contract : i \in { j \in 1..Len(ListOf(s, d)) : j <= 10 } }
Contributors(d, symbol) ==
    { s \in 1..Len(StrategyNames) : \E c \in TopTen(s, d) : ExtractSymbol(c) = symbol }
InputSymbols ==
    { ExtractSymbol(fnIn.position_analysis[i].contract) : i \in 1..Len(fnIn.position_analysis) }

\* C16: a symbol is a resonance entry of a direction iff at least two distinct
\* strategies each contributed a top-10 signal of that direction for it; several
\* contracts of one symbol in one strategy's top 10 do not make an entry.
C16_ResonanceIffTwoStrategies ==
    SummaryDone =>
        \A d \in Directions, symbol \in InputSymbols :
            symbol \in DOMAIN EntriesOf(d) <=> Cardinality(Contributors(d, symbol)) >= 2

\* C17: for every resonance entry the count is the number of distinct strategies
\* that contributed a top-10 signal for the symbol and direction, the strategy
\* list names exactly those strategies and the contract list holds exactly the
\* contributing contracts.
C17_EntryContents ==
    SummaryDone =>
        \A d \in Directions : \A symbol \in DOMAIN EntriesOf(d) :
            LET info == EntriesOf(d)[symbol] IN
            /\ info.count = Cardinality(Contributors(d, symbol))
            /\ { info.strategies[i] : i \in 1..Len(info.strategies) }
                    = { StrategyNames[s] : s \in Contributors(d, symbol) }
            /\ { info.contracts[i] : i \in 1..Len(info.contracts) }
                    = UNION { { c \in TopTen(s, d) : ExtractSymbol(c) = symbol } :
                                s \in 1..Len(StrategyNames) }

\* C18: every contribution recorded in a resonance entry (strategy i of the
\* strategy list with contract i of the contract list) is a signal with fewer
\* than 10 strictly stronger signals of the same strategy and direction: a
\* signal outside its strategy's 10 strongest contributes nothing.
StrongerThan(c, s, d) ==
    LET pa == fnIn.position_analysis
        own == CHOOSE i \in 1..Len(pa) : pa[i].contract = c IN
    { i \in 1..Len(pa) : /\ pa[i].strategies[s].signal = d
                         /\ pa[i].strategies[s].strength > pa[own].strategies[s].strength }
C18_OnlyTopTen ==
    SummaryDone =>
        \A d \in Directions : \A symbol \in DOMAIN EntriesOf(d) :
            LET info == EntriesOf(d)[symbol] IN
            /\ info.count = Len(info.strategies)
            /\ info.count = Len(info.contracts)
            /\ \A i \in 1..Len(info.strategies) :
                LET s == CHOOSE x \in 1..Len(StrategyNames) : StrategyNames[x] = info.strategies[i]
                    c == info.contracts[i] IN
                /\ \E k \in 1..Len(fnIn.position_analysis) :
                        /\ fnIn.position_analysis[k].contract = c
                        /\ fnIn.position_analysis[k].strategies[s].signal = d
                /\ ExtractSymbol(c) = symbol
                /\ Cardinality(StrongerThan(c, s, d)) < 10
C18_Witness ==
    /\ SummaryDone
    /\ \E k \in 1..Len(fnIn.position_analysis) :
        LET data == fnIn.position_analysis[k]
            symbol == ExtractSymbol(data.contract) IN
        /\ data.strategies[1].signal = "Long"
        /\ Cardinality(StrongerThan(data.contract, 1, "Long")) = 10
        /\ symbol \in DOMAIN fnOut.signal_resonance.long
        /\ \A i \in 1..Len(fnOut.signal_resonance.long[symbol].strategies) :
                fnOut.signal_resonance.long[symbol].strategies[i] # StrategyNames[1]

\* C21: for n >= 5 qualifying rows the informed group is the max(2, ceil(0.4 n))
\* rows of highest informedness (long + short) / vol and the uninformed group
\* holds all the other qualifying rows.
Informedness(r) == [num |-> r.long_open_interest + r.short_open_interest, den |-> r.vol]
C21_InformedGroupSize ==
    (fnIn.fn = "analyze_spider_web" /\ fnOut.done /\ QualifyingRows >= 5) =>
        LET n == QualifyingRows
            ceil == (4 * n + 9) \div 10 IN
        /\ Len(fnOut.its) = IF ceil > 2 THEN ceil ELSE 2
        /\ Len(fnOut.its) + Len(fnOut.uts) = n
        /\ \A i \in 1..Len(fnOut.its), j \in 1..Len(fnOut.uts) :
                Informedness(fnOut.its[i]).num * Informedness(fnOut.uts[j]).den
                    >= Informedness(fnOut.uts[j]).num * Informedness(fnOut.its[i]).den

\* C22: when both groups hold a row with positive total position, MSD is the
\* mean of (long - short) / (long + short) over the informed rows with positions
\* minus that mean over the uninformed ones; the direction is Long iff
\* MSD > 0.05, Short iff MSD < -0.05, else Neutral, and the strength is |MSD| in
\* all three cases.  Every total position of the tables divides 40, so the
\* means are compared as whole numbers of 1/40.
RECURSIVE LeanSum40(_)
LeanSum40(rows) ==
    IF rows = <<>> THEN 0
    ELSE LET r == Head(rows)
             total == r.long_open_interest + r.short_open_interest IN
         (IF total > 0 THEN (40 * (r.long_open_interest - r.short_open_interest)) \div total ELSE 0)
         + LeanSum40(Tail(rows))
PositionCount(rows) ==
    Cardinality({ i \in 1..Len(rows) : rows[i].long_open_interest + rows[i].short_open_interest > 0 })
C22_MsdThresholds ==
    (/\ fnIn.fn = "analyze_spider_web" /\ fnOut.done /\ QualifyingRows >= 5
     /\ PositionCount(fnOut.its) > 0 /\ PositionCount(fnOut.uts) > 0) =>
        LET ni == PositionCount(fnOut.its)
            nu == PositionCount(fnOut.uts)
            \* MSD = msdNum / msdDen
            msdNum == nu * LeanSum40(fnOut.its) - ni * LeanSum40(fnOut.uts)
            msdDen == 40 * ni * nu IN
        /\ fnOut.signal = "Long" <=> 20 * msdNum > msdDen
        /\ fnOut.signal = "Short" <=> 20 * msdNum < -msdDen
        /\ fnOut.signal \in {"Long", "Short", "Neutral"}
        /\ fnOut.strength.num * msdDen
                = fnOut.strength.den * (IF msdNum < 0 THEN -msdNum ELSE msdNum)
C22_Witness ==
    /\ fnIn.fn = "analyze_spider_web" /\ fnOut.done /\ QualifyingRows >= 5
    /\ PositionCount(fnOut.its) > 0 /\ PositionCount(fnOut.uts) > 0
    /\ fnOut.signal = "Neutral"
    /\ fnOut.strength.num = 1 /\ fnOut.strength.den = 20

\* Helpers of C23 and C24: the watched seats that remain (aggregated long or
\* short position positive) in the snapshot of a retail-reverse call.
RetailDone == fnIn.fn = "analyze_retail_reverse" /\ fnOut.done
Remaining ==
    { s \in { SeatStats(fnIn.raw_data, fnIn.retail_seats[i]) : i \in 1..Len(fnIn.retail_seats) } :
        s.long_pos > 0 \/ s.short_pos > 0 }

\* C23: Neutral if no watched seat remains; otherwise Long iff every remaining
\* seat has dShort > 0 and dLong <= 0, Short iff every remaining seat has
\* dLong > 0 and dShort <= 0, Neutral in every other case; discarded seats do
\* not count.
C23_RetailDirection ==
    RetailDone =>
        /\ fnOut.signal \in {"Long", "Short", "Neutral"}
        /\ Remaining = {} => fnOut.signal = "Neutral"
        /\ Remaining # {} =>
            /\ fnOut.signal = "Long" <=> \A s \in Remaining : s.short_chg > 0 /\ s.long_chg <= 0
            /\ fnOut.signal = "Short" <=> \A s \in Remaining : s.long_chg > 0 /\ s.short_chg <= 0
C23_Witness ==
    /\ RetailDone
    /\ fnOut.signal = "Long"
    /\ Cardinality(Remaining) = 1
    /\ \E i \in 1..Len(fnIn.retail_seats) :
        LET s == SeatStats(fnIn.raw_data, fnIn.retail_seats[i]) IN
        s \notin Remaining /\ s.long_chg > 0

\* C24: whenever a watched seat remains, whatever the direction, the strength is
\* (sum of the remaining seats' long + short positions) / (sum of all long and
\* short positions of the snapshot), and 0 when that sum is 0.
RECURSIVE SumOfSet(_, _)
SumOfSet(S, acc) ==
    IF S = {} THEN acc
    ELSE LET s == CHOOSE x \in S : TRUE IN SumOfSet(S \ {s}, acc + s.long_pos + s.short_pos)
C24_RetailStrength ==
    (RetailDone /\ Remaining # {}) =>
        LET all == SumSeq([i \in 1..Len(fnIn.raw_data) |->
                            (IF fnIn.raw_data[i].long_open_interest = NaN THEN 0
                             ELSE fnIn.raw_data[i].long_open_interest)
                            + (IF fnIn.raw_data[i].short_open_interest = NaN THEN 0
                               ELSE fnIn.raw_data[i].short_open_interest)])
            watched == SumOfSet(Remaining, 0) IN
        IF all = 0 THEN fnOut.strength.num = 0
        ELSE fnOut.strength.num * all = fnOut.strength.den * watched

\* Helpers of C26-C29: the term-structure results of all runs made so far.
TermResults ==
    IF fnIn.fn = "term_structure"
    THEN UNION { { fnOut.runs[k].term_structure[i] : i \in 1..Len(fnOut.runs[k].term_structure) } :
                    k \in 1..Len(fnOut.runs) }
    ELSE {}

\* C26: for at least two closes ordered near to far the structure is back iff
\* every close is strictly greater than the next, contango iff every close is
\* strictly less than the next, and flat otherwise (equal neighbours included).
C26_StrictStructure ==
    \A r \in TermResults :
        LET n == Len(r.closes)
            falling == \A i \in 1..(n - 1) : r.closes[i] > r.closes[i + 1]
            rising == \A i \in 1..(n - 1) : r.closes[i] < r.closes[i + 1] IN
        n >= 2 =>
            /\ r.structure = "back" <=> falling
            /\ r.structure = "contango" <=> rising
            /\ r.structure = "flat" <=> (~falling /\ ~rising)
C26_Witness ==
    \E r \in TermResults :
        /\ Len(r.closes) = 3
        /\ r.closes[1] = r.closes[2] /\ r.closes[2] > r.closes[3]
        /\ r.structure = "flat"

\* C27: in every result the contracts are ordered by contract month (trailing
\* four digits YYMM, years below 50 in the 2000s, the others in the 1900s),
\* symbols without four trailing digits come after all the others, and the
\* closes are aligned with the contracts.
Parsable(symbol) ==
    Len(symbol) >= 4 /\ \A i \in (Len(symbol) - 3)..Len(symbol) : IsDigit(symbol[i])
MonthKey(symbol) ==
    LET n == Len(symbol)
        yy == 10 * DigitVal(symbol[n - 3]) + DigitVal(symbol[n - 2])
        mm == 10 * DigitVal(symbol[n - 1]) + DigitVal(symbol[n]) IN
    (IF yy < 50 THEN 2000 + yy ELSE 1900 + yy) * 100 + mm
C27_MonthOrder ==
    \A r \in TermResults :
        /\ Len(r.closes) = Len(r.contracts)
        /\ \A i, j \in 1..Len(r.contracts) :
            i < j =>
                /\ (Parsable(r.contracts[i]) /\ Parsable(r.contracts[j]))
                        => MonthKey(r.contracts[i]) <= MonthKey(r.contracts[j])
                /\ ~Parsable(r.contracts[i]) => ~Parsable(r.contracts[j])
        /\ \A i \in 1..Len(r.contracts) :
            \E e \in 1..NumPriceEx : \E k \in 1..Len(fnIn.responses[e]) :
                /\ fnIn.responses[e][k].symbol = r.contracts[i]
                /\ fnIn.responses[e][k].close = r.closes[i]
C27_Witness ==
    \E r \in TermResults :
        /\ Len(r.contracts) = 3
        /\ r.contracts[1] = <<"M", "9", "9", "1", "2">>
        /\ r.contracts[2] = <<"M", "2", "4", "0", "5">>
        /\ r.contracts[3] = <<"M", "0">>
        /\ r.closes[1] < r.closes[2]

\* C28: every run returns exactly one result for each variety with at least
\* two quotes of present, strictly positive close and none for any other
\* variety; every result has at least two contracts and only positive closes.
C28_OneResultPerVariety ==
    fnIn.fn = "term_structure" =>
        \A k \in 1..Len(fnOut.runs) :
            LET run == fnOut.runs[k]
                quoted(v) == { i \in 1..Len(run.price_data) :
                                 /\ run.price_data[i].variety = v
                                 /\ run.price_data[i].close # NaN
                                 /\ run.price_data[i].close > 0 }
                found(v) == { i \in 1..Len(run.term_structure) : run.term_structure[i].variety = v } IN
            /\ \A v \in { OtherVarieties[e] : e \in 1..Len(OtherVarieties) } \cup {"M"} :
                    Cardinality(found(v)) = IF Cardinality(quoted(v)) >= 2 THEN 1 ELSE 0
            /\ \A i \in 1..Len(run.term_structure) :
                    /\ Len(run.term_structure[i].contracts) >= 2
                    /\ \A j \in 1..Len(run.term_structure[i].closes) :
                            run.term_structure[i].closes[j] > 0
C28_Witness ==
    /\ fnIn.fn = "term_structure"
    /\ \E k \in 1..Len(fnOut.runs) :
        /\ \E i \in 1..Len(fnOut.runs[k].price_data) : fnOut.runs[k].price_data[i].close = 0
        /\ \E i \in 1..Len(fnOut.runs[k].price_data) : fnOut.runs[k].price_data[i].close = NaN
        /\ \E i \in 1..Len(fnOut.runs[k].price_data) :
                /\ fnOut.runs[k].price_data[i].variety = "M"
                /\ fnOut.runs[k].price_data[i].close > 0
        /\ Len(fnOut.runs[k].term_structure) = 1
        /\ fnOut.runs[k].term_structure[1].variety # "M"

\* C29: for fixed upstream responses the term-structure list of a fast-mode
\* run, its order included, is the same whatever the order in which the
\* concurrent fetch tasks complete.
C29_SameForEveryOrder ==
    fnIn.fn = "term_structure" =>
        \A a, b \in 1..Len(fnOut.runs) :
            fnOut.runs[a].term_structure = fnOut.runs[b].term_structure

\* C25: when a strategy meets a data error on a contract, that (contract,
\* strategy) pair gets Error with strength 0 and a rationale and nothing else
\* changes: every processed contract appears in the results with all its
\* strategies, each other pair has the direction its strategy computed, and
\* every direction is Long, Short, Neutral or Error.
C25_ErrorIsolation ==
    (fnIn.fn = "_analyze_positions" /\ fnOut.done) =>
        /\ ~fnOut.aborted
        /\ \A k \in 1..Len(fnIn.position_data) :
            LET c == fnIn.position_data[k]
                found == { i \in 1..Len(fnOut.results) : fnOut.results[i].contract = c.contract } IN
            /\ Cardinality(found) = IF ProcessPositionData(c.columns) = "data" THEN 1 ELSE 0
            /\ \A i \in found : \A s \in 1..Len(StrategyNames) :
                LET r == fnOut.results[i].strategies[s] IN
                /\ r.signal \in {"Long", "Short", "Neutral", "Error"}
                /\ c.body[s] = "raises" => (r.signal = "Error" /\ r.strength = 0 /\ r.reason # "")
                /\ c.body[s] # "raises" => r.signal = c.body[s]
C25_Witness ==
    /\ fnIn.fn = "_analyze_positions" /\ fnOut.done
    /\ Len(fnOut.results) = 2
    /\ fnOut.results[1].strategies[2].signal = "Error"
    /\ fnOut.results[1].strategies[1].signal = "Long"
    /\ fnOut.results[2].strategies[2].signal = "Long"

\* C30: evaluating a strategy a second time on the same snapshot (and
\* watch-list) gives the same direction, strength and seat details as the first
\* time, and no evaluation changes the snapshot.
StrategyFns == {"analyze_power_change", "analyze_spider_web", "analyze_retail_reverse"}
FullAnalysisResult ==
    [position_analysis |-> analysed,
     term_structure |-> IF priceRows THEN "analysed" ELSE "empty",
     summary |-> [total_contracts |-> Cardinality(analysed)],
     metadata |-> [include_term_structure |-> TRUE]]

\* The sources whose position fetch failed in the run that just returned.
FailedThisRun == Sources \ persisted

\* C31: the result returned by full_analysis identifies the sources whose position
\* fetch failed in that run: they are exactly the sources that have no contract
\* in position_analysis, the only part of the result that refers to sources.
C31_FailedSourcesObservable ==
    (EngineRun /\ outcome = "result") =>
        FailedThisRun = Sources \ FullAnalysisResult.position_analysis

\* Price acquisition returned an empty table after a successful position fetch:
\* the run has gone past the price stage with no price row.
EmptyPriceTable ==
    /\ fetchOk = <<TRUE>>
    /\ ~priceRows
    /\ \E i \in 1..Len(stages) : stages[i] = "LoadSnapshots"

\* C32: an empty price table is not fatal: a run whose position fetch succeeded
\* and whose price acquisition yielded no rows ends with a result, without having
\* run term-structure analysis, with an empty term_structure list and with the
\* position analysis and summary of the contracts it analysed.
C32_EmptyPricesNotFatal ==
    (EngineRun /\ RunEnded /\ EmptyPriceTable) =>
        /\ outcome = "result"
        /\ \A i \in 1..Len(stages) : stages[i] # "RunTermStructure"
        /\ FullAnalysisResult.term_structure = "empty"
        /\ FullAnalysisResult.summary.total_contracts =
                Cardinality(FullAnalysisResult.position_analysis)

\* The contracts of position_analysis.
AnalysedContracts ==
    { fnIn.position_analysis[k].contract : k \in 1..Len(fnIn.position_analysis) }

\* The analysed contracts whose signal of strategy s is d.
ContractsWith(s, d) ==
    { fnIn.position_analysis[k].contract :
        k \in { j \in 1..Len(fnIn.position_analysis) :
                    fnIn.position_analysis[j].strategies[s].signal = d } }

\* C33: in the summary, for each strategy the long list holds exactly the
\* analysed contracts whose signal of that strategy is Long and the short list
\* those whose signal is Short, each once (Neutral and Error signals are in
\* neither list); each list is in non-increasing order of strength; the statistics
\* are the number of analysed contracts, the total lengths of the long and of
\* the short lists, and the numbers of long and short resonance entries.
C33_SummaryLists ==
    SummaryDone =>
        /\ \A s \in 1..Len(StrategyNames) : \A d \in Directions :
            LET list == ListOf(s, d) IN
            /\ { list[i].contract : i \in 1..Len(list) } = ContractsWith(s, d)
            /\ Len(list) = Cardinality(ContractsWith(s, d))
            /\ \A i \in 1..Len(list) : \E k \in 1..Len(fnIn.position_analysis) :
                    /\ fnIn.position_analysis[k].contract = list[i].contract
                    /\ fnIn.position_analysis[k].strategies[s].strength = list[i].strength
            /\ \A i \in 1..(Len(list) - 1) : list[i].strength >= list[i + 1].strength
        /\ fnOut.statistics.total_contracts = Len(fnIn.position_analysis)
        /\ fnOut.statistics.total_long_signals =
                Cardinality({ <<s, c>> \in (1..Len(StrategyNames)) \X AnalysedContracts :
                                c \in ContractsWith(s, "Long") })
        /\ fnOut.statistics.total_short_signals =
                Cardinality({ <<s, c>> \in (1..Len(StrategyNames)) \X AnalysedContracts :
                                c \in ContractsWith(s, "Short") })
        /\ fnOut.statistics.resonance_long_count = Cardinality(DOMAIN EntriesOf("Long"))
        /\ fnOut.statistics.resonance_short_count = Cardinality(DOMAIN EntriesOf("Short"))

\* C33 witness: a summary of eleven contracts in which a later contract has the
\* stronger Long signal, one strategy gave Short and one Error, and a symbol
\* resonates.
C33_Witness ==
    /\ SummaryDone
    /\ Len(fnIn.position_analysis) = 11
    /\ \E k \in 1..Len(fnIn.position_analysis) :
            fnIn.position_analysis[k].strategies[3].signal = "Error"
    /\ Len(ListOf(1, "Long")) = 11
    /\ ListOf(1, "Long")[1].contract = fnIn.position_analysis[11].contract
    /\ Len(ListOf(2, "Short")) = 1
    /\ fnOut.statistics.total_long_signals = 12
    /\ fnOut.statistics.resonance_long_count = 1

\* The fetch tasks that are executing: taken by a worker and not yet returned.
Executing == { t \in TaskIds : Running(t) }

\* C34: while fetch_position_data_fast or fetch_price_data_fast collects its
\* futures, at most 2 fetch tasks are executing, every configured source (and
\* only those) has its one task, and two different tasks never write the same
\* per-exchange artifact file.
C34_BoundedConcurrency ==
    /\ mode = "fast" => Cardinality(Executing) <= 2
    /\ pc = "fast_collect" =>
            { t \in TaskIds : task[t] # "none" } = Sources
    /\ pc = "fastp_collect" =>
            { t \in TaskIds : task[t] # "none" } = PriceIds
    /\ mode = "fast" =>
            \A t \in Sources : \A u \in Sources \ {t} :
                (task[t] # "none" /\ task[u] # "none") => FileOf(t) # FileOf(u)

\* C34 witness: two position tasks are executing while a third one waits for a
\* worker and nothing has been collected yet.
C34_Witness ==
    /\ pc = "fast_collect"
    /\ Cardinality(Executing) = 2
    /\ \E t \in Sources : task[t] = "queued"
    /\ collected = {}

\* The alphabetic characters of a contract identifier, in upper case.
UpperLetters(contract) ==
    LET letters == SelectSeq(contract, IsAlpha) IN
    [i \in 1..Len(letters) |-> ToUpper(letters[i])]

\* C35: two contract identifiers are counted under the same resonance symbol if
\* and only if their sequences of alphabetic characters are equal ignoring case.
C35_SymbolGrouping ==
    (fnIn.fn = "extract_symbol" /\ fnOut.done) =>
        ((fnOut.symbols[1] = fnOut.symbols[2]) <=>
            (UpperLetters(fnIn.contracts[1]) = UpperLetters(fnIn.contracts[2])))

\* C36: CLOUD_CONFIG is never changed by get_cloud_optimized_config or
\* apply_cloud_optimizations, whatever the environment of the calls: it keeps GFEX
\* timeout 45 and max_workers 2, and every call made in a cloud environment gets
\* these values, also after a call made in a local environment.
C36_ConfigImmutable ==
    /\ ReadConfig(cfgHeap, CLOUD_CONFIG) = [gfex_timeout |-> 45, max_workers |-> 2]
    /\ \A i \in 1..Len(cfgCalls) :
            cfgCalls[i].cloud => cfgCalls[i].config = [gfex_timeout |-> 45, max_workers |-> 2]

\* What the upstream function of each source does on a given trade date when it
\* is deterministic: it always returns data or it always fails (raises or
\* returns nothing).
UpstreamBehaviours == [Sources -> {"data", "fails"}]

\* fetch_position_data without a progress callback on such an upstream (lines
\* 82-108): every source is called once, an artifact is written for each one
\* that returns data, and the flag says whether there was one.
FetchPositionData(upstream) ==
    LET written == { s \in Sources : upstream[s] = "data" } IN
    [artifacts |-> written, success |-> FetchResult(Cardinality(written))]

\* The upstream behaviours that agree with every upstream call made in the
\* current position fetch.
AgreesWithCalls(upstream) ==
    \A s \in Sources :
        /\ s \in gotData => upstream[s] = "data"
        /\ (attempts[s] >= 1 /\ s \notin gotData) => upstream[s] = "fails"

\* C37: on a deterministic upstream the fast position fetch does what the
\* standard one does: when a position fetch without a progress callback returns
\* (no value taken from st.cache_data, no timeout), the artifacts it wrote and its
\* success flag are those of fetch_position_data for every upstream behaviour
\* that agrees with the calls it made.
C37_FastRefinesStandard ==
    (/\ EngineRun
     /\ pc = "fa_pos_ret"
     /\ cb = "none"
     /\ \A s \in Sources : cause[s] \notin {"cached", "timeout"}) =>
        \A upstream \in UpstreamBehaviours :
            AgreesWithCalls(upstream) =>
                /\ persisted = FetchPositionData(upstream).artifacts
                /\ fetchOk = <<FetchPositionData(upstream).success>>

\* The contracts of the input whose table has the seven canonical columns once
\* the columns are standardised.
CompleteContracts ==
    { k \in 1..Len(fnIn.position_data) :
        RequiredColumns \subseteq StandardizeColumns(fnIn.position_data[k].columns) }

\* C38: a contract whose table lacks one of the seven canonical columns after
\* column standardisation has no entry in position_analysis (so no signal of any
\* strategy, not even Error) and is not counted, while every other contract has
\* its entry with the signals of its own data, in the order of the input.
C38_IncompleteTablesOmitted ==
    (fnIn.fn = "_analyze_positions" /\ fnOut.done) =>
        /\ ~fnOut.aborted
        /\ Len(fnOut.results) = Cardinality(CompleteContracts)
        /\ \A k \in 1..Len(fnIn.position_data) :
            LET c == fnIn.position_data[k]
                at == Cardinality({ j \in CompleteContracts : j <= k }) IN
            IF k \in CompleteContracts
            THEN /\ fnOut.results[at].contract = c.contract
                 /\ \A s \in 1..Len(StrategyNames) :
                        fnOut.results[at].strategies[s] = Guarded(c.body[s])
            ELSE \A i \in 1..Len(fnOut.results) : fnOut.results[i].contract # c.contract

\* C38 witness: a table without vol is skipped between nothing and a CZCE table
\* that is analysed after it.
C38_Witness ==
    /\ fnIn.fn = "_analyze_positions" /\ fnOut.done
    /\ Len(fnIn.position_data) = 2
    /\ "vol" \notin fnIn.position_data[1].columns
    /\ "g_party_n" \in fnIn.position_data[2].columns
    /\ Len(fnOut.results) = 1
    /\ fnOut.results[1].contract = fnIn.position_data[2].contract
    /\ fnOut.results[1].strategies[1].signal = "Long"

\* C39: a call through the smart_cache wrapper whose function returns None (or
\* raises) leaves the cache directory as it was, and a call whose key has a valid
\* entry (one that is_cache_valid accepts, in particular any entry younger than
\* the wrapper's max_age_hours) returns the stored value without running the
\* function and without writing.
C39_HitsServedNoneNotStored ==
    [][cacheOp'.op = "call" =>
        LET k == cacheOp'.key IN
        /\ cacheOp'.result \in {"None", "raised"} => cacheDir' = cacheDir
        /\ (Exists(cacheDir[k]) /\ now - cacheDir[k].mtime < DefaultMaxAgeHours) =>
                /\ ~cacheOp'.ran
                /\ cacheOp'.result = saved[k][1]
                /\ cacheDir' = cacheDir]_vars

\* C39 witness: a call found an entry saved three hours before and returned its
\* empty table without running the function.
C39_Witness ==
    /\ cacheOp.op = "call"
    /\ ~cacheOp.ran
    /\ cacheOp.result = "empty"
    /\ cacheOp.age = 3
    /\ saved[cacheOp.key] = <<"empty", now - 3>>

====
